---------------------------- MODULE Spec2Model ----------------------------
(***************************************************************************)
(* A model of the scraping core of ai-chat-downloader-pro:                 *)
(*   - scrape_share                  (utils/browser_fetch.py)              *)
(*   - scrape_claude_share           (utils/browser_fetch.py)              *)
(*   - scrape_claude_share_advanced  (utils/claude_stealth_scraper.py)     *)
(*   - scrape_with_auto_detection    (utils/async_queue_manager.py)        *)
(* One call of a fetcher is one behaviour: Init picks the entry point and  *)
(* the URL, and every step of the call that awaits the browser is one      *)
(* action whose outcome (response status, page content, exception) is      *)
(* chosen by the environment.                                              *)
(***************************************************************************)
EXTENDS Integers, Sequences, FiniteSets, TLC

VARIABLES
    fn,             \* the function being executed
    link,           \* the URL argument
    pc,             \* position inside the function
    attempt,        \* loop variable of the retry loop
    attempts,       \* number of loop bodies entered so far
    result,         \* "running", "markdown", "none" (returned None) or "raised"
    error,          \* the raised exception: its class, and the error it wraps
    waits,          \* one record per failed attempt that was followed by another
    launched,       \* number of browsers launched by the call
    open,           \* browsers launched and not yet closed
    browser,        \* the browser of the current attempt (0: none)
    fpCount,        \* number of fingerprint generations
    fingerprint,    \* the value of the local variable fingerprint (0: unbound)
    ctxFp,          \* the fingerprint given to new_context, per attempt
    injFp,          \* the fingerprint given to the stealth injector, per attempt
    status,         \* HTTP status of the navigation response (0: none)
    page_content,   \* what page.content() returned at the last read
    challenged,     \* result of the challenge check of this attempt
    content_loaded, \* content_loaded / content_detected of this attempt
    visited,        \* steps performed on the page of the current attempt
    doc,            \* the DOM of the content handed to the parser
    messages,       \* the extracted messages
    blocks,         \* number of Markdown blocks built
    include_direction,  \* argument: wrap each message in <div dir=...>
    include_speakers,   \* argument: put a speaker label on each message
    direction_method,   \* argument: the method of the direction classifier
    markdown,       \* the Markdown built: the options its header lists, its blocks
    text,           \* the text handed to the direction classifier on its own
    direction,      \* what the classifier returned ("": not called yet)
    urls,           \* scrape_multiple_urls: the argument urls
    max_concurrent, \* scrape_multiple_urls: the argument max_concurrent
    semaphore,      \* scrape_multiple_urls: the value of the semaphore
    tasks,          \* scrape_multiple_urls: one record per scrape_single_url
    task_queue,     \* the messages of the LiteQueue that are ready, oldest first
    processed_tasks, \* the tasks taken from the queue, in the order taken
    active_sessions,    \* the queue manager's dictionary active_sessions: its keys
    results,        \* scrape_multiple_urls: the list returned
    calls,          \* the calls of the direction classifier made so far
    fp_timezone,    \* the value of fingerprint["timezone"] ("": no such key)
    tz_offset,      \* what Date.prototype.getTimezoneOffset returns in the page
    session_state   \* web app: the st.session_state of each browser session

vars == <<fn, link, pc, attempt, attempts, result, error, waits, launched,
          open, browser, fpCount, fingerprint, ctxFp, injFp, status,
          page_content, challenged, content_loaded, visited, doc, messages,
          blocks, include_direction, include_speakers, direction_method,
          markdown, text, direction, urls, max_concurrent, semaphore, tasks,
          task_queue, processed_tasks, active_sessions, results, calls,
          fp_timezone, tz_offset, session_state>>

-----------------------------------------------------------------------------
(* Bounds of the model *)

\* longest document handed to the parser, in message/div nodes
MaxDocNodes == 1

\* max_retries of both Claude fetchers
max_retries == 3

-----------------------------------------------------------------------------
(* URLs *)

Hosts == {"chatgpt.com", "chat.openai.com", "claude.ai", "invalid.com"}

\* lengths of the identifier after /share/: empty, short, UUID-like
IdLens == {0, 4, 12}

\* scheme://host/share/<id> or scheme://host/<id>
Links == [https : BOOLEAN, host : Hosts, share : BOOLEAN, idLen : IdLens]

\* re.match(r"https://(chat\.openai\.com|chatgpt\.com)/share/.+", link)
MatchesChatGPTShare(l) ==
    /\ l.https
    /\ l.host \in {"chat.openai.com", "chatgpt.com"}
    /\ l.share
    /\ l.idLen >= 1

\* a prefix check that forgets the scheme
StartsWithAnyScheme(l) == l.host = "claude.ai" /\ l.share

\* link.startswith("https://claude.ai/share/")
StartsWithClaudeShare(l) ==
    /\ l.https
    /\ l.host = "claude.ai"
    /\ l.share

\* "claude.ai/share/" in url
ContainsClaudeShare(l) == l.host = "claude.ai" /\ l.share

\* any(domain in url for domain in ["chat.openai.com", "chatgpt.com"])
ContainsChatGPTDomain(l) == l.host \in {"chat.openai.com", "chatgpt.com"}


-----------------------------------------------------------------------------
(* Page content.  A page content is abstracted to the indicator strings    *)
(* it contains, whether document.body.innerText is shorter than 150        *)
(* characters, and whether a challenge element is present in the DOM.      *)

PageTokens == {"Ray ID:", "ray id:", "Forbidden", "Loading...", "We use cookies"}

Lower(t) ==
    CASE t = "Ray ID:" -> "ray id:"
      [] t = "Forbidden" -> "forbidden"
      [] t = "Loading..." -> "loading..."
      [] t = "We use cookies" -> "we use cookies"
      [] OTHER -> t

Contents(tokens) == [tokens : SUBSET tokens, short : BOOLEAN, chEl : BOOLEAN]

NoContent == [tokens |-> {}, short |-> FALSE, chEl |-> FALSE]

\* security_indicators of scrape_claude_share
security_indicators ==
    {"Verify you are human", "checking if the site connection is secure",
     "This process is automatic", "DDoS protection by Cloudflare",
     "Just a moment", "Ray ID:", "cloudflare-static",
     "cf-browser-verification", "challenge-platform", "Access denied",
     "Forbidden", "Please turn JavaScript on and reload the page"}

\* normal_popups of scrape_claude_share
normal_popups ==
    {"Cookie settings", "We use cookies",
     "customize or personalize your experience", "Accept All Cookies",
     "Reject All Cookies"}

\* security_indicators of detect_security_challenge
advanced_security_indicators ==
    {"Verify you are human", "security of your connection",
     "Enable JavaScript and cookies", "Cloudflare",
     "Please enable JavaScript", "Access denied", "Ray ID:",
     "cloudflare-static", "cf-browser-verification", "challenge-platform",
     "checking if the site connection is secure",
     "This process is automatic", "DDoS protection by Cloudflare",
     "Just a moment", "Please turn JavaScript on", "cf-ray-", "__cf_bm",
     "_cf_chl_opt", "Please complete the security check",
     "Verifying your browser", "Loading...", "One moment please...",
     "Checking your browser before accessing"}

\* any(indicator in page_content for indicator in security_indicators)
has_security_indicators(c) == c.tokens \cap security_indicators # {}

\* any(popup in page_content for popup in normal_popups)
has_normal_popups(c) == c.tokens \cap normal_popups # {}

\* challenge_detected = has_security_indicators and not has_normal_popups
challenge_detected(c) == has_security_indicators(c) /\ ~has_normal_popups(c)

\* still_blocked: the re-check after the bypass attempt
still_blocked(c) == has_security_indicators(c)

\* a final check that lets every page through
FinalCheckNever(c, loaded) == FALSE

\* final_security_check
final_security_check(c, loaded) ==
    has_security_indicators(c) /\ ~has_normal_popups(c) /\ ~loaded

\* detect_security_challenge(page)[0]
detect_security_challenge(c) ==
    IF \E t \in c.tokens :
          Lower(t) \in {Lower(i) : i \in advanced_security_indicators}
    THEN TRUE
    ELSE IF c.short THEN TRUE
    ELSE c.chEl

\* the challenge check each Claude fetcher applies to a page content
Detect(f, c) ==
    IF f = "scrape_claude_share" THEN challenge_detected(c)
    ELSE detect_security_challenge(c)

\* the check each Claude fetcher applies after its bypass attempt
BypassFailed(f, c) ==
    IF f = "scrape_claude_share" THEN still_blocked(c)
    ELSE detect_security_challenge(c)

-----------------------------------------------------------------------------
(* Text direction (browser_fetch.py 279-415).  A text is a sequence of      *)
(* characters, each abstracted to what the classifier reads of it:          *)
(*   "ar"  a letter of the Arabic block (bidirectional class AL)            *)
(*   "aw"  a digit, mark or punctuation sign of the Arabic block (classes   *)
(*         AN, EN, NSM, CS, ET, ON: neither strong RTL nor strong LTR)      *)
(*   "la"  a Latin letter (class L)                                         *)
(*   "sp"  a whitespace character                                           *)
(*   "lt"  the character <          "gt"  the character >                   *)
(*   "dot" one of the characters . ! ?                                      *)

Chars == {"ar", "aw", "la", "sp", "lt", "gt", "dot"}

Methods == {"auto", "first-strong", "counting", "weighted"}

\* unicodedata.bidirectional(char)
_get_bidi_type(c) ==
    CASE c = "ar" -> "AL"
      [] c = "aw" -> "AN"
      [] c = "la" -> "L"
      [] c = "sp" -> "WS"
      [] c = "dot" -> "CS"
      [] OTHER -> "ON"

_RTL_BIDI == {"R", "AL", "RLE", "RLO", "ALM", "RLI"}

_LTR_BIDI == {"L", "LRE", "LRO", "LRI"}

\* a classifier that knows no script ranges
NoRtlScript(c) == FALSE

\* any(start <= code_point <= end for start, end in _RTL_SCRIPT_RANGES)
_is_rtl_script(c) == c \in {"ar", "aw"}

IsSpace(c) == c = "sp"

\* the position of the > that closes a tag opened by the < at s[1], or 0:
\* [^>]+ needs at least one character, none of them >
TagEnd(s) ==
    LET G == {j \in 2..Len(s) : s[j] = "gt"}
        first == CHOOSE j \in G : \A k \in G : j <= k
    IN IF G = {} THEN 0 ELSE IF first >= 3 THEN first ELSE 0

RECURSIVE StripTags(_)
\* re.sub(r"<[^>]+>", " ", text)
StripTags(s) ==
    IF s = <<>> THEN <<>>
    ELSE IF Head(s) = "lt" /\ TagEnd(s) > 0
         THEN <<"sp">> \o StripTags(SubSeq(s, TagEnd(s) + 1, Len(s)))
         ELSE <<Head(s)>> \o StripTags(Tail(s))

RECURSIVE CollapseSpace(_)
\* re.sub(r"\s+", " ", text)
CollapseSpace(s) ==
    IF Len(s) <= 1 THEN s
    ELSE IF IsSpace(s[1]) /\ IsSpace(s[2]) THEN CollapseSpace(Tail(s))
         ELSE <<s[1]>> \o CollapseSpace(Tail(s))

RECURSIVE StripLeft(_)
StripLeft(s) ==
    IF s # <<>> /\ IsSpace(Head(s)) THEN StripLeft(Tail(s)) ELSE s

RECURSIVE StripRight(_)
StripRight(s) ==
    IF s # <<>> /\ IsSpace(s[Len(s)])
    THEN StripRight(SubSeq(s, 1, Len(s) - 1)) ELSE s

\* text.strip()
Strip(s) == StripRight(StripLeft(s))

RECURSIVE Split(_, _, _)
\* text.split(): the maximal runs of characters that are not whitespace
Split(s, word, acc) ==
    IF s = <<>> THEN (IF word = <<>> THEN acc ELSE Append(acc, word))
    ELSE IF IsSpace(Head(s))
         THEN Split(Tail(s), <<>>, IF word = <<>> THEN acc ELSE Append(acc, word))
         ELSE Split(Tail(s), Append(word, Head(s)), acc)

\* counts of the characters the counting and weighted methods tell apart
RtlCount(s) ==
    Cardinality({i \in DOMAIN s :
        _get_bidi_type(s[i]) \in _RTL_BIDI \/ _is_rtl_script(s[i])})

LtrCount(s) ==
    Cardinality({i \in DOMAIN s :
        /\ ~(_get_bidi_type(s[i]) \in _RTL_BIDI \/ _is_rtl_script(s[i]))
        /\ _get_bidi_type(s[i]) \in _LTR_BIDI})

RECURSIVE _first_strong_direction(_)
_first_strong_direction(s) ==
    IF s = <<>> THEN "ltr"
    ELSE IF _get_bidi_type(Head(s)) \in _RTL_BIDI THEN "rtl"
    ELSE IF _get_bidi_type(Head(s)) \in _LTR_BIDI THEN "ltr"
    ELSE _first_strong_direction(Tail(s))

_character_counting_direction(s) ==
    IF RtlCount(s) > LtrCount(s) THEN "rtl"
    ELSE IF LtrCount(s) > RtlCount(s) THEN "ltr"
    ELSE _first_strong_direction(s)

\* the weight a word adds: word_rtl = 2 per RTL character, word_ltr = 1 per
\* strong LTR character; an RTL-dominant word adds word_rtl + 1
WordRtlWeight(w) ==
    IF 2 * RtlCount(w) > LtrCount(w) THEN 2 * RtlCount(w) + 1 ELSE 0

WordLtrWeight(w) ==
    IF LtrCount(w) > 2 * RtlCount(w) THEN LtrCount(w) ELSE 0

RECURSIVE SumRtl(_)
SumRtl(ws) == IF ws = <<>> THEN 0 ELSE WordRtlWeight(Head(ws)) + SumRtl(Tail(ws))

RECURSIVE SumLtr(_)
SumLtr(ws) == IF ws = <<>> THEN 0 ELSE WordLtrWeight(Head(ws)) + SumLtr(Tail(ws))

\* text.strip().endswith(("!", "?", ".")) and the first character is strong RTL
SentenceBonus(s) ==
    IF /\ Strip(s) # <<>>
       /\ Strip(s)[Len(Strip(s))] = "dot"
       /\ _get_bidi_type(Strip(s)[1]) \in _RTL_BIDI
    THEN 2 ELSE 0

_weighted_direction(s) ==
    IF SumRtl(Split(s, <<>>, <<>>)) + SentenceBonus(s) > SumLtr(Split(s, <<>>, <<>>))
    THEN "rtl" ELSE "ltr"

\* clean_text of _smart_direction_detection
clean_text(s) == Strip(CollapseSpace(StripTags(s)))

\* an auto method that never sees mixed scripts
NeverMixed(s) == FALSE

\* has_mixed_scripts
has_mixed_scripts(s) ==
    /\ \E i \in DOMAIN s : _is_rtl_script(s[i])
    /\ \E i \in DOMAIN s : _get_bidi_type(s[i]) \in _LTR_BIDI

\* length under which auto uses the first strong character
ShortText == 10

\* a classifier that applies the method to the text as given, tags included
ClassifyRaw(s, method) ==
    IF method = "counting" THEN _character_counting_direction(s)
    ELSE IF method = "weighted" THEN _weighted_direction(s)
    ELSE _first_strong_direction(s)

\* a classifier that remembers: once a text was rtl, every later one is
ClassifyWithMemory(s, method) ==
    IF direction = "rtl" THEN "rtl" ELSE ClassifyRaw(s, method)

_smart_direction_detection(s, method) ==
    IF s = <<>> \/ Strip(s) = <<>> THEN "ltr"
    ELSE IF clean_text(s) = <<>> THEN "ltr"
    ELSE IF method = "first-strong" THEN _first_strong_direction(clean_text(s))
    ELSE IF method = "counting" THEN _character_counting_direction(clean_text(s))
    ELSE IF method = "weighted" THEN _weighted_direction(clean_text(s))
    ELSE IF Len(clean_text(s)) < ShortText
         THEN _first_strong_direction(clean_text(s))
    ELSE IF has_mixed_scripts(clean_text(s))
         THEN _weighted_direction(clean_text(s))
    ELSE _character_counting_direction(clean_text(s))

\* apply_rtl_detection of claude_stealth_scraper.py: rtl_ratio > 0.3, the
\* method is not read
apply_rtl_detection(s, method) ==
    IF s = <<>> THEN "ltr"
    ELSE IF 10 * Cardinality({i \in DOMAIN s :
                 _get_bidi_type(s[i]) \in {"R", "AL"}}) > 3 * Len(s)
         THEN "rtl" ELSE "ltr"

\* a run of n characters c
Run(c, n) == [i \in 1..n |-> c]

-----------------------------------------------------------------------------
(* Documents.  A document is the sequence of its div elements in document  *)
(* order.  kind "user" is an element with data-testid="user-message",      *)
(* "assistant" one whose class holds font-claude-message, "other" a div    *)
(* with neither.  On a ChatGPT page "user" and "assistant" are the values  *)
(* of data-message-author-role and "other" is a node without the           *)
(* attribute.  oneLine: the whole document is on one source line;          *)
(* otherwise element i starts on line i.  containers: every user and       *)
(* assistant element sits in its own div[data-test-render-count].          *)

Kinds == {"user", "assistant", "other"}

\* texts, by identity; TextLen is len(get_text(strip=True)).  Text 3 is a
\* subtree on which markdownify raises.
Texts == {0, 1, 2}

Unparsable == {3}

TextLen(t) == CASE t = 0 -> 0 [] t = 1 -> 8 [] OTHER -> 30

Nodes(texts) == [kind : Kinds, text : texts]

Docs(n, texts) ==
    { [nodes |-> s, oneLine |-> o, containers |-> c] :
        s \in UNION { [1..k -> Nodes(texts)] : k \in 0..n },
        o \in BOOLEAN, c \in BOOLEAN }

NoDoc == [nodes |-> <<>>, oneLine |-> TRUE, containers |-> FALSE]

\* the elements of a document, each with its position
Elements(d) ==
    [i \in 1..Len(d.nodes) |->
        [kind |-> d.nodes[i].kind, text |-> d.nodes[i].text, pos |-> i]]

Message(role, e) == [role |-> role, content |-> e.text, pos |-> e.pos]

\* element.sourceline under html.parser
sourceline(d, e) == IF d.oneLine THEN 1 ELSE e.pos

\* get_element_order(item): sourceline is always set (and >= 1) under
\* html.parser, so the str(soup).find fallback is never taken
get_element_order(d, e) == sourceline(d, e)

RECURSIVE InsertByKey(_, _, _)
\* insert e after every element of the sorted sequence s whose key is <= e's
InsertByKey(d, s, e) ==
    IF s = <<>> THEN <<e>>
    ELSE IF get_element_order(d, Head(s)) <= get_element_order(d, e)
         THEN <<Head(s)>> \o InsertByKey(d, Tail(s), e)
         ELSE <<e>> \o s

RECURSIVE SortStable(_, _)
\* list.sort(key=get_element_order): stable
SortStable(d, s) ==
    IF s = <<>> THEN <<>>
    ELSE InsertByKey(d, SortStable(d, SubSeq(s, 1, Len(s) - 1)), s[Len(s)])

IsUser(e) == e.kind = "user"
IsAssistant(e) == e.kind = "assistant"

\* soup.find_all(attrs={"data-testid": "user-message"})
user_messages(d) == SelectSeq(Elements(d), IsUser)

\* soup.find_all(class_=lambda x: x and "font-claude-message" in x)
assistant_messages(d) == SelectSeq(Elements(d), IsAssistant)

\* soup.find_all("div", {"data-test-render-count": True})
message_containers(d) ==
    IF d.containers
    THEN SelectSeq(Elements(d), LAMBDA e : e.kind # "other")
    ELSE <<>>

\* Tag.find(name): the first descendant whose TAG NAME is name.  Every
\* element of a document is a div, so a CSS selector given as the name
\* ('[data-testid="user-message"]', ".font-claude-message") matches nothing.
FindByName(e, name) == name = "div"

RECURSIVE Concat(_)
Concat(ss) == IF ss = <<>> THEN <<>> ELSE Head(ss) \o Concat(Tail(ss))

Take(s, n) == SubSeq(s, 1, IF Len(s) < n THEN Len(s) ELSE n)

-----------------------------------------------------------------------------
(* The parser of scrape_claude_share (browser_fetch.py 1001-1113) *)

\* Strategy 1: containers with data-test-render-count
InlineTier1(d) ==
    Concat([i \in 1..Len(message_containers(d)) |->
        LET c == message_containers(d)[i] IN
        IF FindByName(c, "[data-testid=\"user-message\"]")
        THEN (IF TextLen(c.text) > 0 THEN <<Message("user", c)>> ELSE <<>>)
        ELSE IF FindByName(c, ".font-claude-message")
        THEN (IF TextLen(c.text) > 0 THEN <<Message("assistant", c)>> ELSE <<>>)
        ELSE <<>>])

\* all_message_elements after all_message_elements.sort(key=get_element_order)
all_message_elements(d) ==
    SortStable(d, user_messages(d) \o assistant_messages(d))

\* Strategy 2: both queries, merged and sorted
InlineTier2(d) ==
    Concat([i \in 1..Len(all_message_elements(d)) |->
        LET e == all_message_elements(d)[i] IN
        IF TextLen(e.text) > 0
        THEN <<Message(IF e.kind = "user" THEN "user" ELSE "assistant", e)>>
        ELSE <<>>])

\* soup.find_all("div"): a container precedes the element it wraps and has
\* the same text
all_divs(d) ==
    Concat([i \in 1..Len(d.nodes) |->
        IF d.containers /\ d.nodes[i].kind # "other"
        THEN <<Elements(d)[i], Elements(d)[i]>>
        ELSE <<Elements(d)[i]>>])

RECURSIVE InlinePotential(_, _)
\* potential_messages: no element carries a class holding "user" (the user
\* marker is a data-testid), so the role alternates
InlinePotential(divs, acc) ==
    IF divs = <<>> THEN acc
    ELSE IF TextLen(Head(divs).text) > 10
         THEN InlinePotential(Tail(divs),
                Append(acc, Message(IF Len(acc) % 2 = 0 THEN "user"
                                    ELSE "assistant", Head(divs))))
         ELSE InlinePotential(Tail(divs), acc)

\* Strategy 3: potential_messages[:10]
InlineTier3(d) == Take(InlinePotential(all_divs(d), <<>>), 10)

\* messages of scrape_claude_share
InlineTier(d) ==
    IF InlineTier1(d) # <<>> THEN 1
    ELSE IF InlineTier2(d) # <<>> THEN 2 ELSE 3

InlineMessages(d) ==
    IF InlineTier1(d) # <<>> THEN InlineTier1(d)
    ELSE IF InlineTier2(d) # <<>> THEN InlineTier2(d)
    ELSE InlineTier3(d)

-----------------------------------------------------------------------------
(* extract_claude_messages (claude_stealth_scraper.py 380-500) *)

\* text_content and len(text_content) > 5
Substantial(e) == TextLen(e.text) > 5

\* container.find(class_=lambda x: x and "font-claude-message" in x)
FindByClass(e) == e.kind = "assistant"

\* Strategy 1: render count containers
AdvancedTier1(d) ==
    Concat([i \in 1..Len(message_containers(d)) |->
        LET c == message_containers(d)[i] IN
        IF FindByName(c, "[data-testid=\"user-message\"]") /\ Substantial(c)
        THEN <<Message("user", c)>>
        ELSE IF FindByClass(c) /\ Substantial(c)
        THEN <<Message("assistant", c)>>
        ELSE <<>>])

\* the elements soup.select(selector) returns for the assistant selectors:
\* four of the seven match the class font-claude-message, the others match
\* no element of a document
assistant_selectors == <<TRUE, TRUE, FALSE, FALSE, FALSE, TRUE, TRUE>>

SelectAssistant(d, matches) == IF matches THEN assistant_messages(d) ELSE <<>>

RECURSIVE AppendUnique(_, _)
\* append the substantial elements whose content no message has yet
AppendUnique(msgs, es) ==
    IF es = <<>> THEN msgs
    ELSE IF Substantial(Head(es))
            /\ ~\E k \in 1..Len(msgs) : msgs[k].content = Head(es).text
         THEN AppendUnique(Append(msgs, Message("assistant", Head(es))), Tail(es))
         ELSE AppendUnique(msgs, Tail(es))

\* the user messages of Strategy 2
AdvancedUsers(d) ==
    Concat([i \in 1..Len(user_messages(d)) |->
        IF Substantial(user_messages(d)[i])
        THEN <<Message("user", user_messages(d)[i])>>
        ELSE <<>>])

\* Strategy 2: direct selectors, user messages first, then every assistant
\* selector in turn
AdvancedTier2(d) ==
    AppendUnique(AdvancedUsers(d),
        Concat([i \in 1..Len(assistant_selectors) |->
            SelectAssistant(d, assistant_selectors[i])]))

\* is_user_msg: no class of a document holds "user" or "human", and the
\* texts of the model hold none of the words "user:", "me:", "question:", "i "
is_user_msg(e) == FALSE

\* confidence = min(len(text), 1000)
confidence(e) == IF TextLen(e.text) < 1000 THEN TextLen(e.text) ELSE 1000

RECURSIVE InsertByConfidence(_, _)
InsertByConfidence(s, e) ==
    IF s = <<>> THEN <<e>>
    ELSE IF confidence(Head(s)) >= confidence(e)
         THEN <<Head(s)>> \o InsertByConfidence(Tail(s), e)
         ELSE <<e>> \o s

RECURSIVE SortByConfidence(_)
\* potential_messages.sort(key=confidence, reverse=True): stable
SortByConfidence(s) ==
    IF s = <<>> THEN <<>>
    ELSE InsertByConfidence(SortByConfidence(SubSeq(s, 1, Len(s) - 1)), s[Len(s)])

RECURSIVE DedupeByContent(_, _)
DedupeByContent(es, acc) ==
    IF es = <<>> THEN acc
    ELSE IF \E k \in 1..Len(acc) : acc[k].content = Head(es).text
         THEN DedupeByContent(Tail(es), acc)
         ELSE DedupeByContent(Tail(es),
                Append(acc, Message(IF is_user_msg(Head(es)) THEN "user"
                                    ELSE "assistant", Head(es))))

\* Strategy 3: intelligent content mining
AdvancedTier3(d) ==
    DedupeByContent(
        Take(SortByConfidence(
                SelectSeq(all_divs(d),
                    LAMBDA e : 20 < TextLen(e.text) /\ TextLen(e.text) < 8000)),
             15),
        <<>>)

AdvancedTier(d) ==
    IF AdvancedTier1(d) # <<>> THEN 1
    ELSE IF AdvancedTier2(d) # <<>> THEN 2 ELSE 3

\* extract_claude_messages(page)
extract_claude_messages(d) ==
    IF AdvancedTier1(d) # <<>> THEN AdvancedTier1(d)
    ELSE IF AdvancedTier2(d) # <<>> THEN AdvancedTier2(d)
    ELSE AdvancedTier3(d)

\* the messages each Claude fetcher extracts from a document
ClaudeMessages(f, d) ==
    IF f = "scrape_claude_share" THEN InlineMessages(d)
    ELSE extract_claude_messages(d)

ClaudeTier(f, d) ==
    IF f = "scrape_claude_share" THEN InlineTier(d) ELSE AdvancedTier(d)

-----------------------------------------------------------------------------
(* The parser of scrape_share (browser_fetch.py 532-593) *)

\* soup.select("[data-message-author-role]")
role_messages(d) == SelectSeq(Elements(d), LAMBDA e : e.kind # "other")

\* md(str(md_container)) raises
MarkdownifyRaises(e) == e.text \in Unparsable

\* a parser that keeps the messages with empty text
ChatGPTBlocksKeepEmpty(d) ==
    Concat([i \in 1..Len(role_messages(d)) |->
        LET e == role_messages(d)[i] IN
        IF MarkdownifyRaises(e) THEN <<>> ELSE <<Message(e.kind, e)>>])

\* blocks: one per message; a message whose raw_text.strip() is empty is
\* skipped (continue), and so is one whose formatting raises (except: continue)
ChatGPTBlocks(d) ==
    Concat([i \in 1..Len(role_messages(d)) |->
        LET e == role_messages(d)[i] IN
        IF TextLen(e.text) = 0 THEN <<>>
        ELSE IF MarkdownifyRaises(e) THEN <<>>
        ELSE <<Message(e.kind, e)>>])

-----------------------------------------------------------------------------
(* The Markdown (browser_fetch.py 543-613 and 1120-1165,                   *)
(* claude_stealth_scraper.py 719-751).  A block is abstracted to its        *)
(* speaker label ("" when it has none), the dir wrappers around its text,   *)
(* and the text; the header to the options it lists.                        *)

\* the characters of the texts of a document
TextChars(t) ==
    CASE t = 0 -> <<>>
      [] t = 1 -> Run("la", 2) \o <<"sp">> \o Run("la", 5)
      [] t = 2 -> Run("ar", 12) \o <<"sp">> \o Run("la", 4) \o <<"sp">>
                    \o Run("ar", 12)
      [] OTHER -> Run("la", 30)

\* _role(div) / _claude_role(element, is_user) / the speaker of the
\* advanced scraper
SpeakerLabel(f, role) ==
    IF role = "user" THEN "User"
    ELSE IF f = "scrape_share" THEN "ChatGPT" ELSE "Claude"

\* the classifier each fetcher calls on a message text
Direction(f, s, method) ==
    IF f = "scrape_claude_share_advanced" THEN apply_rtl_detection(s, method)
    ELSE _smart_direction_detection(s, method)

\* Direction on the texts of a document, tabulated
TextDirection ==
    [f \in {"scrape_share", "scrape_claude_share", "scrape_claude_share_advanced"},
     t \in Texts \cup Unparsable, method \in Methods |->
        Direction(f, TextChars(t), method)]

\* a block that carries its speaker label whatever include_speakers says
FormatBlockAlwaysLabelled(f, m, dir, spk, method) ==
    [label |-> SpeakerLabel(f, m.role),
     wrappers |-> IF dir THEN <<TextDirection[f, m.content, method]>>
                  ELSE <<>>,
     content |-> m.content,
     pos |-> m.pos]

\* block = f"{header}\n\n{formatted_content}\n\n---\n"
FormatBlock(f, m, dir, spk, method) ==
    [label |-> IF spk THEN SpeakerLabel(f, m.role) ELSE "",
     wrappers |-> IF dir THEN <<TextDirection[f, m.content, method]>>
                  ELSE <<>>,
     content |-> m.content,
     pos |-> m.pos]

\* options_info; the header of the advanced scraper lists no option
options_info(f, dir, spk, method) ==
    IF f = "scrape_claude_share_advanced" THEN <<>>
    ELSE (IF dir THEN <<[option |-> "direction", method |-> method]>> ELSE <<>>)
         \o (IF spk THEN <<[option |-> "speakers", method |-> ""]>> ELSE <<>>)

\* metadata + "\n".join(blocks)
Markdown(f, msgs, dir, spk, method) ==
    [header |-> options_info(f, dir, spk, method),
     blocks |-> [i \in 1..Len(msgs) |-> FormatBlock(f, msgs[i], dir, spk, method)]]

NoMarkdown == [header |-> <<>>, blocks |-> <<>>]

-----------------------------------------------------------------------------
(* The environment of one call *)

Fetchers == {"scrape_share", "scrape_claude_share", "scrape_claude_share_advanced"}

ClaudeFetchers == {"scrape_claude_share", "scrape_claude_share_advanced"}

\* what a Playwright call can raise: PlaywrightTimeoutError, an error whose
\* text holds "net::" or "ERR_", any other exception
Exceptions == {"timeout", "net", "other"}

\* HTTP status of the navigation response
Statuses == {200, 403, 404, 500}

\* indicator strings of the pages a fetch meets
FetchTokens == {"Ray ID:", "We use cookies"}

\* the page contents a fetch can read; scrape_claude_share looks at the
\* strings only
FetchContents(f) ==
    IF f = "scrape_claude_share"
    THEN {c \in Contents(FetchTokens) : ~c.short /\ ~c.chEl}
    ELSE Contents(FetchTokens)

FetchDocs == Docs(MaxDocNodes, Texts \cup Unparsable)

-----------------------------------------------------------------------------
(* Control flow shared by the actions: each of these sets pc, attempt,     *)
(* result, error and waits.                                                *)

Goto(p) == pc' = p /\ UNCHANGED <<attempt, result, error, waits>>

NoError == [class |-> "", last |-> ""]

Finish(res, err) ==
    /\ pc' = "done"
    /\ result' = res
    /\ error' = err
    /\ UNCHANGED <<attempt, waits>>

\* raise Exception(<message of class err>)
Raise(err) == Finish("raised", [class |-> err, last |-> err])

\* raise Exception(f"All {max_retries} attempts failed. Last error: {str(e)}")
RaiseAllFailed(last) ==
    Finish("raised", [class |-> "AllAttemptsFailed", last |-> last])

\* first step of the body of the retry loop
BodyStart(f) ==
    IF f = "scrape_claude_share_advanced" THEN "fingerprint" ELSE "launch"

Pow2(n) == IF n = 0 THEN 1 ELSE IF n = 1 THEN 2 ELSE IF n = 2 THEN 4 ELSE 8

\* a retry that backs off where the code goes straight to the next attempt
NoSleepBacksOff(a, why) ==
    [after |-> a, why |-> why, lo |-> Pow2(a) + 1, hi |-> Pow2(a) + 5]

\* attempt a failed because of why; no asyncio.sleep before the next attempt
NoSleep(a, why) == [after |-> a, why |-> why, lo |-> 0, hi |-> 0]

\* wait_time = (2**attempt) + random.randint(jlo, jhi); asyncio.sleep(wait_time):
\* the wait lies in lo..hi
Sleep(a, why, jlo, jhi) ==
    [after |-> a, why |-> why, lo |-> Pow2(a) + jlo, hi |-> Pow2(a) + jhi]

\* what follows the retry loop when range(max_retries) is exhausted:
\* scrape_claude_share reaches its parser with content unbound (the
\* NameError is wrapped by the parser's handler), the advanced scraper
\* falls off the end of the function and returns None
LoopExhausted(f) ==
    IF f = "scrape_claude_share"
    THEN [result |-> "raised",
          error |-> [class |-> "ParseError", last |-> "ParseError"]]
    ELSE [result |-> "none", error |-> NoError]

\* the sleep w (if any), then the next iteration of  for attempt in range(max_retries)
Continue(w) ==
    /\ waits' = Append(waits, w)
    /\ IF attempt + 1 < max_retries
       THEN /\ attempt' = attempt + 1
            /\ pc' = BodyStart(fn)
            /\ UNCHANGED <<result, error>>
       ELSE /\ attempt' = attempt
            /\ pc' = "done"
            /\ result' = LoopExhausted(fn).result
            /\ error' = LoopExhausted(fn).error

\* handlers that give up at the first failure
ExceptInlineNoRetry(kind, msg) ==
    IF kind = "timeout" THEN Raise("RequestTimedOut")
    ELSE IF kind = "net" THEN Raise("NetworkError")
    ELSE IF msg = "TimeoutLoading" THEN Raise(msg)
    ELSE RaiseAllFailed(msg)

\* scrape_claude_share: except PlaywrightTimeoutError / except Exception
ExceptInline(kind, msg) ==
    IF kind = "timeout"
    THEN IF attempt < max_retries - 1
         THEN Continue(NoSleep(attempt, "timeout"))
         ELSE Raise("RequestTimedOut")
    ELSE IF attempt < max_retries - 1
         THEN Continue(Sleep(attempt, "exception", 1, 3))
         ELSE IF kind = "net" THEN Raise("NetworkError")
         ELSE IF msg = "TimeoutLoading" THEN Raise(msg)
         ELSE RaiseAllFailed(msg)

\* scrape_claude_share_advanced: except Exception
ExceptAdvanced(kind, msg) ==
    IF attempt < max_retries - 1
    THEN Continue(Sleep(attempt, "exception", 2, 8))
    ELSE RaiseAllFailed(msg)

\* scrape_share: except PlaywrightTimeoutError / except Exception
ExceptChatGPT(kind, msg) ==
    IF kind = "timeout" THEN Raise("RequestTimedOut")
    ELSE IF kind = "net" THEN Raise("NetworkError")
    ELSE IF msg \in {"TimeoutLoading", "ContentNotLoaded"} THEN Raise(msg)
    ELSE Raise("BrowserError")

\* an exception of the given kind and message leaves the try block
Except(kind, msg) ==
    IF fn = "scrape_claude_share" THEN ExceptInline(kind, msg)
    ELSE IF fn = "scrape_claude_share_advanced" THEN ExceptAdvanced(kind, msg)
    ELSE ExceptChatGPT(kind, msg)

\* a context manager that leaves the browser running
PlaywrightExitLeaks(o, b) == o

\* leaving  async with async_playwright()  stops the driver, and with it the
\* browser launched inside the block
PlaywrightExit(o, b) == o \ {b}

\* await browser.close()
BrowserClose(o, b) == o \ {b}

-----------------------------------------------------------------------------
(* The call *)

optVars == <<include_direction, include_speakers, direction_method>>
inputVars == <<fn, link, optVars>>

\* the defaults of the arguments
DefaultOptions ==
    /\ include_direction = TRUE
    /\ include_speakers = TRUE
    /\ direction_method = "auto"

\* no text has been handed to the classifier
ClassIdle == text = <<>> /\ direction = "" /\ calls = <<>>

\* no batch is running
BatchIdle ==
    /\ urls = <<>>
    /\ max_concurrent = 0
    /\ semaphore = 0
    /\ tasks = <<>>
    /\ results = <<>>

\* the queue is empty
QueueIdle ==
    task_queue = <<>> /\ processed_tasks = <<>> /\ active_sessions = {}

\* no page has been given a stealth script
StealthIdle == fp_timezone = "" /\ tz_offset = 0

\* the web app has no browser session
WebIdle == session_state = <<>>

SideIdle == ClassIdle /\ BatchIdle /\ QueueIdle /\ StealthIdle /\ WebIdle

classVars == <<text, direction, calls>>
batchVars == <<urls, max_concurrent, semaphore, tasks, results>>
queueVars == <<task_queue, processed_tasks, active_sessions>>
stealthVars == <<fp_timezone, tz_offset>>
webVars == <<session_state>>

\* the variables no fetch touches
sideVars == <<classVars, batchVars, queueVars, stealthVars, webVars>>
browserVars == <<launched, open, browser>>
fpVars == <<fpCount, fingerprint, ctxFp, injFp>>
pageVars == <<status, page_content, challenged, content_loaded, visited>>
outVars == <<doc, messages, blocks, markdown>>

Init ==
    /\ fn \in Fetchers \cup {"scrape_with_auto_detection"}
    /\ link \in Links
    /\ DefaultOptions
    /\ SideIdle
    /\ pc = IF fn = "scrape_with_auto_detection" THEN "detect" ELSE "start"
    /\ attempt = 0
    /\ attempts = 0
    /\ result = "running"
    /\ error = NoError
    /\ waits = <<>>
    /\ launched = 0
    /\ open = {}
    /\ browser = 0
    /\ fpCount = 0
    /\ fingerprint = 0
    /\ ctxFp = <<>>
    /\ injFp = <<>>
    /\ status = 0
    /\ page_content = NoContent
    /\ challenged = FALSE
    /\ content_loaded = FALSE
    /\ visited = {}
    /\ doc = NoDoc
    /\ messages = <<>>
    /\ blocks = 0
    /\ markdown = NoMarkdown

\* the URL check each fetcher starts with
ValidLink(f, l) ==
    IF f = "scrape_share" THEN MatchesChatGPTShare(l)
    ELSE StartsWithClaudeShare(l)

\* scrape_with_auto_detection: the fetcher the URL is dispatched to
DetectedFetcher(l) ==
    IF ContainsClaudeShare(l) THEN "scrape_claude_share"
    ELSE IF ContainsChatGPTDomain(l) THEN "scrape_share"
    ELSE "none"

\* the Python class of a raised error: the URL checks of the fetchers and
\* scrape_with_auto_detection all execute `raise Exception(...)`, and
\* quick_scrape lets the exception of asyncio.run through
ExceptionType(class) == "Exception"

\* scrape_with_auto_detection(url, ...)
AutoDetect ==
    /\ pc = "detect"
    /\ IF DetectedFetcher(link) = "none"
       THEN fn' = fn /\ Raise("UnknownPlatform")
       ELSE fn' = DetectedFetcher(link) /\ Goto("start")
    /\ UNCHANGED <<link, optVars, sideVars, attempts, browserVars, fpVars, pageVars, outVars>>

\* the URL validation at the head of the three fetchers
Validate ==
    /\ pc = "start"
    /\ IF ~ValidLink(fn, link) THEN Raise("InvalidInput")
       ELSE IF fn = "scrape_share" THEN Goto("launch")
       ELSE Goto("fingerprint")
    /\ UNCHANGED <<inputVars, sideVars, attempts, browserVars, fpVars, pageVars, outVars>>

\* _generate_stealth_fingerprint() before the loop of scrape_claude_share;
\* generate_realistic_fingerprint() at the head of every iteration of
\* scrape_claude_share_advanced.  Each generation yields a new object.
GenerateFingerprint ==
    /\ pc = "fingerprint"
    /\ fpCount' = fpCount + 1
    /\ fingerprint' = fpCount + 1
    /\ attempts' = IF fn = "scrape_claude_share_advanced"
                   THEN attempts + 1 ELSE attempts
    /\ Goto("launch")
    /\ UNCHANGED <<inputVars, sideVars, browserVars, ctxFp, injFp, pageVars, outVars>>

\* async with async_playwright(): chromium.launch, new_context(fingerprint),
\* new_page.  Launching the browser and creating the context are taken to
\* succeed; every later step of the attempt can raise.
Launch ==
    /\ pc = "launch"
    /\ attempts' = IF fn = "scrape_claude_share_advanced"
                   THEN attempts ELSE attempts + 1
    /\ status' = 0
    /\ page_content' = NoContent
    /\ challenged' = FALSE
    /\ content_loaded' = FALSE
    /\ visited' = {}
    /\ launched' = launched + 1
    /\ browser' = launched + 1
    /\ open' = open \cup {launched + 1}
    /\ ctxFp' = IF fn \in ClaudeFetchers THEN Append(ctxFp, fingerprint) ELSE ctxFp
    /\ Goto(IF fn \in ClaudeFetchers THEN "stealth" ELSE "navigate")
    /\ UNCHANGED <<inputVars, sideVars, fpCount, fingerprint, injFp, outVars>>

\* _apply_stealth_to_page / inject_stealth_scripts (and, in
\* scrape_claude_share, _simulate_human_behavior before navigation)
ApplyStealth ==
    /\ pc = "stealth"
    /\ injFp' = Append(injFp, fingerprint)
    /\ \/ Goto("navigate") /\ open' = open
       \/ \E k \in Exceptions :
          /\ open' = PlaywrightExit(open, browser)
          /\ Except(k, k)
    /\ UNCHANGED <<inputVars, sideVars, attempts, launched, browser, fpCount, fingerprint,
                   ctxFp, pageVars, outVars>>

\* a status test that singles out 404 instead of 403
AttemptEndsOnNotFound(s) == s >= 400 /\ s = 404

\* response.status >= 400 and response.status == 403
AttemptEndsOnStatus(s) == s >= 400 /\ s = 403

\* page.goto returned a response with status s (0: None)
NavResponse(s) ==
    IF fn = "scrape_share" THEN Goto("gpt_wait") /\ open' = open
    ELSE IF ~AttemptEndsOnStatus(s) THEN Goto("challenge") /\ open' = open
    ELSE /\ open' = PlaywrightExit(open, browser)
         /\ IF fn = "scrape_claude_share"
            THEN Except("other", "Forbidden")        \* raise Exception(...)
            ELSE Continue(NoSleep(attempt, "forbidden"))   \* continue

\* page.goto(link, wait_until="domcontentloaded", timeout=timeout)
Navigate ==
    /\ pc = "navigate"
    /\ \/ \E s \in Statuses : status' = s /\ NavResponse(s)
       \/ /\ status' = 0                     \* PlaywrightTimeoutError
          /\ open' = PlaywrightExit(open, browser)
          /\ IF fn = "scrape_claude_share_advanced"
             THEN Except("timeout", "timeout")
             ELSE Except("other", "TimeoutLoading")
       \/ \E k \in {"net", "other"} :
          /\ status' = 0
          /\ open' = PlaywrightExit(open, browser)
          /\ Except(k, k)
    /\ UNCHANGED <<inputVars, sideVars, attempts, launched, browser, fpVars,
                   page_content, challenged, content_loaded, visited, outVars>>

\* the challenge check on the loaded page
ChallengeCheck ==
    /\ pc = "challenge"
    /\ \/ \E c \in FetchContents(fn) :
          /\ page_content' = c
          /\ challenged' = Detect(fn, c)
          /\ visited' = visited \cup {"challenge_check"}
          /\ open' = open
          /\ Goto(IF Detect(fn, c) THEN "bypass" ELSE "wait")
       \/ \E k \in Exceptions :
          /\ UNCHANGED <<page_content, challenged, visited>>
          /\ open' = PlaywrightExit(open, browser)
          /\ Except(k, k)
    /\ UNCHANGED <<inputVars, sideVars, attempts, launched, browser, fpVars, status,
                   content_loaded, outVars>>

\* the bypass attempt and the re-check that follows it
Bypass ==
    /\ pc = "bypass"
    /\ \/ \E c \in FetchContents(fn) :
          /\ page_content' = c
          /\ IF BypassFailed(fn, c)
             THEN /\ open' = PlaywrightExit(BrowserClose(open, browser), browser)
                  /\ IF attempt < max_retries - 1
                     THEN Continue(Sleep(attempt, "challenge", 1, 5))
                     ELSE Except("other", "ChallengeUnresolved")
             ELSE open' = open /\ Goto("wait")
       \/ \E k \in Exceptions :
          /\ UNCHANGED page_content
          /\ open' = PlaywrightExit(open, browser)
          /\ Except(k, k)
    /\ UNCHANGED <<inputVars, sideVars, attempts, launched, browser, fpVars, status,
                   challenged, content_loaded, visited, outVars>>


\* the documents a fetch is handed: one source line, no render-count
\* containers (ExtractSpec below covers the other layouts)
DocsOf(f) ==
    {d \in FetchDocs :
        /\ d.oneLine /\ ~d.containers
        /\ f # "scrape_share" =>
              \A i \in 1..Len(d.nodes) : d.nodes[i].text \notin Unparsable}

\* an emptiness test that never fires
NoneFoundNever(msgs) == FALSE

\* if not messages
NoneFound(msgs) == msgs = <<>>

\* the layered content wait, and in scrape_claude_share the final read of the
\* page, the final security check and the end of the attempt
ContentWait ==
    /\ pc = "wait"
    /\ \/ /\ fn = "scrape_claude_share"
          /\ \E w \in {"selector", "text", "grace"}, c \in FetchContents(fn),
                d \in DocsOf(fn) :
             /\ content_loaded' = (w # "grace")
             /\ page_content' = c
             /\ visited' = visited \cup {"content_wait"}
             /\ open' = PlaywrightExit(BrowserClose(open, browser), browser)
             /\ IF final_security_check(c, w # "grace")
                THEN /\ doc' = doc
                     /\ IF attempt < max_retries - 1
                        THEN Continue(NoSleep(attempt, "blocked"))
                        ELSE Except("other", "StillBlocked")
                ELSE /\ doc' = d
                     /\ Goto("parse")             \* break
       \/ /\ fn = "scrape_claude_share_advanced"
          /\ \E w \in {"selector", "grace"} :
             /\ content_loaded' = (w = "selector")
             /\ visited' = visited \cup {"content_wait"}
             /\ UNCHANGED <<page_content, open, doc>>
             /\ Goto("extract")
       \/ \E k \in Exceptions :
          /\ UNCHANGED <<page_content, content_loaded, visited, doc>>
          /\ open' = PlaywrightExit(open, browser)
          /\ Except(k, k)
    /\ UNCHANGED <<inputVars, sideVars, attempts, launched, browser, fpVars, status,
                   challenged, messages, blocks, markdown>>

\* scrape_claude_share_advanced: extract_claude_messages(page),
\* browser.close(), the check for no messages, the Markdown
Extract ==
    /\ pc = "extract"
    /\ \/ \E d \in DocsOf(fn) :
          /\ messages' = ClaudeMessages(fn, d)
          /\ visited' = visited \cup {"extract"}
          /\ open' = PlaywrightExit(BrowserClose(open, browser), browser)
          /\ IF NoneFound(ClaudeMessages(fn, d))
             THEN /\ doc' = NoDoc
                  /\ blocks' = 0
                  /\ markdown' = NoMarkdown
                  /\ IF attempt < max_retries - 1
                     THEN Continue(NoSleep(attempt, "nomessages"))
                     ELSE Except("other", "NoMessages")
             ELSE /\ doc' = d
                  /\ blocks' = Len(ClaudeMessages(fn, d))
                  /\ markdown' = Markdown(fn, ClaudeMessages(fn, d),
                                     include_direction, include_speakers,
                                     direction_method)
                  /\ Finish("markdown", NoError)
       \/ \E k \in Exceptions :
          /\ UNCHANGED <<visited, outVars>>
          /\ open' = PlaywrightExit(open, browser)
          /\ Except(k, k)
    /\ UNCHANGED <<inputVars, sideVars, attempts, launched, browser, fpVars, status,
                   page_content, challenged, content_loaded>>

\* scrape_claude_share: the parser that follows the retry loop
Parse ==
    /\ pc = "parse"
    /\ messages' = ClaudeMessages(fn, doc)
    /\ visited' = visited \cup {"extract"}
    /\ IF NoneFound(ClaudeMessages(fn, doc))
       THEN /\ blocks' = 0
            /\ markdown' = NoMarkdown
            /\ Raise("NoMessages")
       ELSE /\ blocks' = Len(ClaudeMessages(fn, doc))
            /\ markdown' = Markdown(fn, ClaudeMessages(fn, doc),
                               include_direction, include_speakers,
                               direction_method)
            /\ Finish("markdown", NoError)
    /\ UNCHANGED <<inputVars, sideVars, attempts, browserVars, fpVars, status,
                   page_content, challenged, content_loaded, doc>>

\* scrape_share: wait_for_selector("div.markdown"), else
\* wait_for_selector("[data-message-author-role]"), page.content(),
\* browser.close()
GptWait ==
    /\ pc = "gpt_wait"
    /\ \/ \E d \in DocsOf(fn) :
          /\ content_loaded' = TRUE
          /\ doc' = d
          /\ open' = PlaywrightExit(BrowserClose(open, browser), browser)
          /\ Goto("gpt_parse")
       \/ /\ UNCHANGED <<content_loaded, doc>>    \* both selectors time out
          /\ open' = PlaywrightExit(open, browser)
          /\ Except("other", "ContentNotLoaded")
       \/ \E k \in Exceptions :
          /\ UNCHANGED <<content_loaded, doc>>
          /\ open' = PlaywrightExit(open, browser)
          /\ Except(k, k)
    /\ visited' = visited \cup {"content_wait"}
    /\ UNCHANGED <<inputVars, sideVars, attempts, launched, browser, fpVars, status,
                   page_content, challenged, messages, blocks, markdown>>

\* scrape_share: the parser
GptParse ==
    /\ pc = "gpt_parse"
    /\ visited' = visited \cup {"extract"}
    /\ IF NoneFound(role_messages(doc))
       THEN /\ UNCHANGED <<messages, blocks, markdown>>
            /\ Raise("NoMessages")
       ELSE /\ messages' = ChatGPTBlocks(doc)
            /\ blocks' = Len(ChatGPTBlocks(doc))
            /\ IF NoneFound(ChatGPTBlocks(doc))      \* if not blocks
               THEN markdown' = NoMarkdown /\ Raise("NoReadable")
               ELSE /\ markdown' = Markdown(fn, ChatGPTBlocks(doc),
                                       include_direction, include_speakers,
                                       direction_method)
                    /\ Finish("markdown", NoError)
    /\ UNCHANGED <<inputVars, sideVars, attempts, browserVars, fpVars, status,
                   page_content, challenged, content_loaded, doc>>

Next ==
    \/ AutoDetect
    \/ Validate
    \/ GenerateFingerprint
    \/ Launch
    \/ ApplyStealth
    \/ Navigate
    \/ ChallengeCheck
    \/ Bypass
    \/ ContentWait
    \/ Extract
    \/ Parse
    \/ GptWait
    \/ GptParse

Spec == Init /\ [][Next]_vars

-----------------------------------------------------------------------------
(* The challenge detectors and the message extractors on their own: each   *)
(* specification draws one input and applies the function once.            *)

\* longest document handed to an extractor on its own
MaxExtractNodes == 3

\* the state outside a fetch
Idle ==
    /\ link = [https |-> TRUE, host |-> "claude.ai", share |-> TRUE, idLen |-> 12]
    /\ attempt = 0
    /\ attempts = 0
    /\ result = "running"
    /\ error = NoError
    /\ waits = <<>>
    /\ launched = 0
    /\ open = {}
    /\ browser = 0
    /\ fpCount = 0
    /\ fingerprint = 0
    /\ ctxFp = <<>>
    /\ injFp = <<>>
    /\ status = 0
    /\ challenged = FALSE
    /\ content_loaded = FALSE
    /\ visited = {}
    /\ messages = <<>>
    /\ blocks = 0
    /\ markdown = NoMarkdown

DetectInit ==
    /\ fn \in ClaudeFetchers
    /\ page_content \in Contents(PageTokens)
    /\ doc = NoDoc
    /\ pc = "content"
    /\ DefaultOptions
    /\ SideIdle
    /\ Idle

\* the challenge check of fn applied to page_content
DetectStep ==
    /\ pc = "content"
    /\ pc' = "detected"
    /\ challenged' = Detect(fn, page_content)
    /\ visited' = {"challenge_check"}
    /\ UNCHANGED <<inputVars, sideVars, attempt, attempts, result, error, waits,
                   browserVars, fpVars, status, page_content, content_loaded,
                   outVars>>

DetectSpec == DetectInit /\ [][DetectStep]_vars

ExtractInit ==
    /\ fn \in ClaudeFetchers
    /\ doc \in Docs(MaxExtractNodes, Texts)
    /\ page_content = NoContent
    /\ pc = "document"
    /\ DefaultOptions
    /\ SideIdle
    /\ Idle

\* the extractor of fn applied to doc
ExtractStep ==
    /\ pc = "document"
    /\ pc' = "extracted"
    /\ messages' = ClaudeMessages(fn, doc)
    /\ blocks' = Len(ClaudeMessages(fn, doc))
    /\ visited' = {"extract"}
    /\ UNCHANGED <<inputVars, sideVars, attempt, attempts, result, error, waits,
                   browserVars, fpVars, status, page_content, challenged,
                   content_loaded, doc, markdown>>

ExtractSpec == ExtractInit /\ [][ExtractStep]_vars

-----------------------------------------------------------------------------
(* The parsers on their own: one document, one choice of the options, and  *)
(* the parser of fn applied once.                                          *)

\* longest document handed to a parser on its own
MaxRenderNodes == 2

\* an exception leaves the body of the formatting loop of a Claude fetcher
\* while it handles message m
FormatRaises(m) == m.content \in Unparsable

\* scrape_share from soup.select on: what it returns or raises
ChatGPTOutcome(d, dir, spk, method) ==
    IF NoneFound(role_messages(d))
    THEN [result |-> "raised", error |-> "NoMessages",
          messages |-> <<>>, markdown |-> NoMarkdown]
    ELSE IF NoneFound(ChatGPTBlocks(d))
    THEN [result |-> "raised", error |-> "NoReadable",
          messages |-> <<>>, markdown |-> NoMarkdown]
    ELSE [result |-> "markdown", error |-> "",
          messages |-> ChatGPTBlocks(d),
          markdown |-> Markdown("scrape_share", ChatGPTBlocks(d), dir, spk, method)]

\* a Claude fetcher from the extraction on: the formatting loop has no
\* handler of its own, so an exception in it leaves the whole loop
ClaudeFormatted(f, msgs, dir, spk, method) ==
    IF NoneFound(msgs)
    THEN [result |-> "raised", error |-> "NoMessages",
          messages |-> <<>>, markdown |-> NoMarkdown]
    ELSE IF \E i \in DOMAIN msgs : FormatRaises(msgs[i])
    THEN [result |-> "raised", error |-> "ParseError",
          messages |-> msgs, markdown |-> NoMarkdown]
    ELSE [result |-> "markdown", error |-> "",
          messages |-> msgs,
          markdown |-> Markdown(f, msgs, dir, spk, method)]

ClaudeOutcome(f, d, dir, spk, method) ==
    ClaudeFormatted(f, ClaudeMessages(f, d), dir, spk, method)

ParseOutcome(f, d, dir, spk, method) ==
    IF f = "scrape_share" THEN ChatGPTOutcome(d, dir, spk, method)
    ELSE ClaudeOutcome(f, d, dir, spk, method)

RenderInit ==
    /\ fn \in Fetchers
    /\ doc \in {d \in Docs(MaxRenderNodes, Texts \cup Unparsable) :
                   ~d.oneLine /\ ~d.containers}
    /\ include_direction \in BOOLEAN
    /\ include_speakers \in BOOLEAN
    /\ direction_method \in Methods
    /\ page_content = NoContent
    /\ pc = "document"
    /\ SideIdle
    /\ Idle

\* the parser and formatter of fn applied to doc
RenderStep ==
    /\ pc = "document"
    /\ pc' = "rendered"
    /\ \E out \in {ParseOutcome(fn, doc, include_direction, include_speakers,
                                direction_method)} :
          /\ result' = out.result
          /\ error' = [class |-> out.error, last |-> out.error]
          /\ messages' = out.messages
          /\ blocks' = Len(out.markdown.blocks)
          /\ markdown' = out.markdown
    /\ visited' = {"extract"}
    /\ UNCHANGED <<inputVars, sideVars, attempt, attempts, waits, browserVars,
                   fpVars, status, page_content, challenged, content_loaded,
                   doc>>

RenderSpec == RenderInit /\ [][RenderStep]_vars

-----------------------------------------------------------------------------
(* The direction classifier on its own: a text and a method are drawn, and *)
(* _smart_direction_detection is applied once.  The texts are the          *)
(* concatenations of at most MaxRuns runs, a run being one character       *)
(* repeated; the long run takes a text over the length auto tests.         *)

\* the number of runs of the longest text
MaxRuns == 3

RunLens == {1, 8}

RunTexts(n) ==
    { Concat([i \in DOMAIN rs |-> Run(rs[i][1], rs[i][2])]) :
        rs \in UNION { [1..k -> Chars \X RunLens] : k \in 0..n } }

ClassifyInit ==
    /\ fn = "scrape_share"
    /\ text \in RunTexts(MaxRuns)
    /\ direction_method \in Methods
    /\ direction = ""
    /\ include_direction = TRUE
    /\ include_speakers = TRUE
    /\ page_content = NoContent
    /\ doc = NoDoc
    /\ pc = "text"
    /\ calls = <<>>
    /\ BatchIdle
    /\ QueueIdle
    /\ StealthIdle
    /\ WebIdle
    /\ Idle

\* direction = _smart_direction_detection(raw_text, method=direction_method)
ClassifyStep ==
    /\ pc = "text"
    /\ pc' = "classified"
    /\ direction' = _smart_direction_detection(text, direction_method)
    /\ UNCHANGED <<inputVars, text, calls, batchVars, queueVars, stealthVars,
                   webVars, attempt, attempts, result, error, waits,
                   browserVars, fpVars, pageVars, outVars>>

ClassifySpec == ClassifyInit /\ [][ClassifyStep]_vars

-----------------------------------------------------------------------------
(* The direction classifier called again and again in one process: every   *)
(* call draws a text and a method, and between two calls the process may   *)
(* generate a new random fingerprint.  calls keeps what each call was      *)
(* given, what it returned and the fingerprint of the process at the call. *)

\* the number of calls made
MaxCalls == 3

\* an Arabic sentence ending in a Latin letter, and a Latin word followed
\* by an Arabic word
RepeatTexts == { Run("ar", 8) \o Run("la", 1), Run("la", 8) \o Run("ar", 8) }

RepeatInit ==
    /\ fn = "scrape_share"
    /\ pc = "calls"
    /\ text = <<>>
    /\ direction = ""
    /\ calls = <<>>
    /\ page_content = NoContent
    /\ doc = NoDoc
    /\ DefaultOptions
    /\ BatchIdle
    /\ QueueIdle
    /\ StealthIdle
    /\ WebIdle
    /\ Idle

repeatFrame ==
    <<fn, link, include_direction, include_speakers, batchVars, queueVars,
      stealthVars, webVars, pc, attempt, attempts, result, error, waits,
      browserVars, ctxFp, injFp, pageVars, outVars>>

\* direction = _smart_direction_detection(raw_text, method=direction_method)
Classify ==
    /\ pc = "calls"
    /\ Len(calls) < MaxCalls
    /\ \E t \in RepeatTexts, m \in Methods :
       \E out \in {_smart_direction_detection(t, m)} :
          /\ text' = t
          /\ direction_method' = m
          /\ direction' = out
          /\ calls' = Append(calls, [text |-> t, method |-> m, result |-> out,
                                     fingerprint |-> fingerprint])
    /\ UNCHANGED <<fpCount, fingerprint, repeatFrame>>

\* _generate_stealth_fingerprint(): a new random fingerprint, at most one
\* between two calls of the classifier
Regenerate ==
    /\ pc = "calls"
    /\ fpCount <= Len(calls)
    /\ Len(calls) < MaxCalls
    /\ fpCount' = fpCount + 1
    /\ fingerprint' = fpCount + 1
    /\ UNCHANGED <<text, direction, direction_method, calls, repeatFrame>>

RepeatNext == Classify \/ Regenerate

RepeatSpec == RepeatInit /\ [][RepeatNext]_vars

-----------------------------------------------------------------------------
(* Batch mode: scrape_multiple_urls (async_queue_manager.py 368-460).  One  *)
(* coroutine scrape_single_url per URL runs on the event loop; a step of a  *)
(* task is what it executes between two suspensions.  A browser, a page or  *)
(* a fingerprint is an object: a new one differs from every object that is  *)
(* in use, and is named by the smallest number no task holds.               *)

\* the longest list of URLs
MaxUrls == 3

\* the values of max_concurrent
Limits == {1, 2}

BatchLinks ==
    { [https |-> TRUE, host |-> "claude.ai", share |-> TRUE, idLen |-> 12],
      [https |-> TRUE, host |-> "chatgpt.com", share |-> TRUE, idLen |-> 12],
      [https |-> TRUE, host |-> "invalid.com", share |-> FALSE, idLen |-> 4] }

\* a permit is always there
NeverLocked(value) == FALSE

\* Semaphore.locked(): no permit is left
locked(value) == value = 0

NoTask ==
    [state |-> "waiting", attempt |-> 0, browser |-> 0, page |-> 0,
     fingerprint |-> 0, success |-> FALSE, finished |-> 0,
     returned |-> <<>>]

\* a result record whose index is 0 whatever the URL's position
ResultAtZero(url, index, ok) ==
    IF ok
    THEN [url |-> url, success |-> TRUE, result |-> "markdown", index |-> 0]
    ELSE [url |-> url, success |-> FALSE, error |-> "str(e)", index |-> 0]

\* what scrape_single_url(url, index) returns: the Markdown of the fetch, or
\* the text of the exception the fetch raised
scrape_single_url(url, index, ok) ==
    IF ok
    THEN [url |-> url, success |-> TRUE, result |-> "markdown", index |-> index]
    ELSE [url |-> url, success |-> FALSE, error |-> "str(e)", index |-> index]

\* asyncio.gather(*tasks): the values returned, in the order of the tasks
gather(ts) == [i \in DOMAIN ts |-> ts[i].returned]

\* list.sort(key=lambda x: x["index"]): a stable sort by index
RECURSIVE SortByIndex(_)
SortByIndex(rs) ==
    IF rs = <<>> THEN <<>>
    ELSE LET r == rs[Len(rs)]
             sorted == SortByIndex(SubSeq(rs, 1, Len(rs) - 1))
             before == Cardinality({k \in DOMAIN sorted :
                                       sorted[k].index <= r.index})
         IN SubSeq(sorted, 1, before) \o <<r>>
                \o SubSeq(sorted, before + 1, Len(sorted))

\* the number of scrape_single_url tasks that have returned
Finished(ts) == Cardinality({i \in DOMAIN ts : ts[i].state = "done"})

\* the fetcher scrape_with_auto_detection hands the URL to, "none" when it
\* or the fetcher's own URL check raises
BatchFetcher(l) ==
    IF DetectedFetcher(l) = "none" THEN "none"
    ELSE IF ValidLink(DetectedFetcher(l), l) THEN DetectedFetcher(l)
    ELSE "none"

\* a new object: the smallest number that names none of those in use
Fresh(inUse) == CHOOSE n \in 1..(Cardinality(inUse) + 1) :
                    n \notin inUse /\ \A m \in 1..(n - 1) : m \in inUse

BrowsersInUse == {tasks[i].browser : i \in DOMAIN tasks} \ {0}
PagesInUse == {tasks[i].page : i \in DOMAIN tasks} \ {0}
FingerprintsInUse == {tasks[i].fingerprint : i \in DOMAIN tasks} \ {0}

\* the tasks inside `async with semaphore`
InProgress == {i \in DOMAIN tasks : tasks[i].state \in {"launching", "browsing"}}

BatchInit ==
    /\ fn = "scrape_multiple_urls"
    /\ urls \in UNION { [1..k -> BatchLinks] : k \in 0..MaxUrls }
    /\ max_concurrent \in Limits
    /\ semaphore = max_concurrent
    /\ tasks = [i \in DOMAIN urls |-> NoTask]
    /\ pc = "gather"
    /\ page_content = NoContent
    /\ doc = NoDoc
    /\ results = <<>>
    /\ DefaultOptions
    /\ ClassIdle
    /\ QueueIdle
    /\ StealthIdle
    /\ WebIdle
    /\ Idle

batchFrame ==
    <<inputVars, classVars, queueVars, stealthVars, webVars, urls,
      max_concurrent, attempt, attempts, error, waits, browserVars, fpVars,
      pageVars, outVars>>

\* scrape_single_url(url, i) from `async with semaphore` to its first
\* suspension inside the fetcher: the URL is dispatched and checked, and
\* scrape_claude_share generates its fingerprint.  A URL that is rejected
\* leaves the block at once and gives the permit back.
Enter(i) ==
    /\ pc = "gather"
    /\ tasks[i].state = "waiting"
    /\ ~locked(semaphore)
    /\ IF BatchFetcher(urls[i]) = "none"
       THEN /\ tasks' = [tasks EXCEPT
                ![i].state = "done",
                ![i].finished = Finished(tasks) + 1,
                ![i].returned = scrape_single_url(urls[i], i - 1, FALSE)]
            /\ semaphore' = semaphore
       ELSE /\ tasks' = [tasks EXCEPT
                ![i].state = "launching",
                ![i].attempt = 1,
                ![i].fingerprint =
                    IF BatchFetcher(urls[i]) = "scrape_claude_share"
                    THEN Fresh(FingerprintsInUse) ELSE 0]
            /\ semaphore' = semaphore - 1
    /\ UNCHANGED <<pc, result, results, batchFrame>>

\* pw.chromium.launch(...), then new_context / new_page
LaunchBrowser(i) ==
    /\ pc = "gather"
    /\ tasks[i].state = "launching"
    /\ tasks' = [tasks EXCEPT
           ![i].state = "browsing",
           ![i].browser = Fresh(BrowsersInUse),
           ![i].page = Fresh(PagesInUse)]
    /\ UNCHANGED <<pc, result, semaphore, results, batchFrame>>

\* the attempt ends and its browser is closed: the fetch returns its
\* Markdown, or fails; a failed attempt of scrape_claude_share short of
\* max_retries is followed by another, any other failure is caught by
\* scrape_single_url.  Leaving the block gives the permit back.
EndAttempt(i) ==
    /\ pc = "gather"
    /\ tasks[i].state = "browsing"
    /\ \E ok \in BOOLEAN :
          IF /\ ~ok
             /\ BatchFetcher(urls[i]) = "scrape_claude_share"
             /\ tasks[i].attempt < max_retries
          THEN /\ tasks' = [tasks EXCEPT
                   ![i].state = "launching",
                   ![i].attempt = @ + 1,
                   ![i].browser = 0,
                   ![i].page = 0]
               /\ semaphore' = semaphore
          ELSE /\ tasks' = [tasks EXCEPT
                   ![i].state = "done",
                   ![i].browser = 0,
                   ![i].page = 0,
                   ![i].fingerprint = 0,
                   ![i].success = ok,
                   ![i].finished = Finished(tasks) + 1,
                   ![i].returned = scrape_single_url(urls[i], i - 1, ok)]
               /\ semaphore' = semaphore + 1
    /\ UNCHANGED <<pc, result, results, batchFrame>>

\* asyncio.gather has every result: the list is sorted and returned
Gathered ==
    /\ pc = "gather"
    /\ \A i \in DOMAIN tasks : tasks[i].state = "done"
    /\ pc' = "done"
    /\ result' = "results"
    /\ results' = SortByIndex(gather(tasks))
    /\ UNCHANGED <<semaphore, tasks, batchFrame>>

BatchNext ==
    \/ \E i \in DOMAIN tasks : Enter(i) \/ LaunchBrowser(i) \/ EndAttempt(i)
    \/ Gathered

BatchSpec == BatchInit /\ [][BatchNext]_vars

-----------------------------------------------------------------------------
(* The timezone of a fingerprint and the timezone offset of the page.  The *)
(* fingerprint's timezone is drawn from the generator's pool and given to  *)
(* the browser context as timezone_id; the stealth script replaces         *)
(* Date.prototype.getTimezoneOffset.  Offsets are in minutes behind UTC.   *)

\* TIMEZONE_OPTIONS of claude_stealth_scraper.py
TIMEZONE_OPTIONS ==
    {"America/New_York", "America/Los_Angeles", "America/Chicago",
     "Europe/London", "Europe/Berlin", "Europe/Paris", "Asia/Tokyo",
     "Asia/Shanghai", "Australia/Sydney"}

\* the pool of "timezone" in _generate_stealth_fingerprint
InlineTimezones ==
    {"America/New_York", "America/Los_Angeles", "Europe/London",
     "Europe/Berlin", "Asia/Tokyo", "Australia/Sydney"}

TimezonePool(f) ==
    IF f = "scrape_claude_share" THEN InlineTimezones ELSE TIMEZONE_OPTIONS

\* what getTimezoneOffset returns in a context created with timezone_id =
\* tz: the offset of the zone in standard time and in daylight saving time
ZoneOffsets(tz) ==
    CASE tz = "America/New_York" -> {300, 240}
      [] tz = "America/Los_Angeles" -> {480, 420}
      [] tz = "America/Chicago" -> {360, 300}
      [] tz = "Europe/London" -> {0, -60}
      [] tz = "Europe/Berlin" -> {-60, -120}
      [] tz = "Europe/Paris" -> {-60, -120}
      [] tz = "Asia/Tokyo" -> {-540}
      [] tz = "Asia/Shanghai" -> {-480}
      [] tz = "Australia/Sydney" -> {-600, -660}

\* inject_stealth_scripts: `return offsets[tz] || 0`
inject_stealth_scripts_offset(tz) ==
    CASE tz = "America/New_York" -> 300
      [] tz = "America/Los_Angeles" -> 480
      [] tz = "Europe/London" -> 0
      [] tz = "Asia/Tokyo" -> -540
      [] OTHER -> 0

\* _apply_stealth_to_page: the script text is `return -` followed by
\* random.randint(-12, 12) * 60.  With a draw r >= 0 the page reports
\* -(60 r); with r < 0 the text is `return --720;`, which is no JavaScript,
\* the script is not run and the page reports the offset of its context.
\* The fingerprint is not read.
_apply_stealth_to_page_offsets(tz) ==
    { 0 - (60 * r) : r \in 0..12 } \cup ZoneOffsets(tz)

TimezoneInit ==
    /\ fn \in ClaudeFetchers
    /\ pc = "fingerprint"
    /\ fp_timezone = ""
    /\ tz_offset = 0
    /\ page_content = NoContent
    /\ doc = NoDoc
    /\ DefaultOptions
    /\ ClassIdle
    /\ BatchIdle
    /\ QueueIdle
    /\ WebIdle
    /\ Idle

timezoneFrame ==
    <<inputVars, classVars, batchVars, queueVars, webVars, attempt, attempts,
      result, error, waits, browserVars, fpVars, pageVars, outVars>>

\* "timezone": random.choice(...) of the fingerprint generator
DrawTimezone ==
    /\ pc = "fingerprint"
    /\ pc' = "stealth"
    /\ fp_timezone' \in TimezonePool(fn)
    /\ UNCHANGED <<tz_offset, timezoneFrame>>

\* the stealth script is added to the page of a context created with
\* timezone_id = fingerprint["timezone"], and the page is asked its offset
InjectTimezone ==
    /\ pc = "stealth"
    /\ pc' = "injected"
    /\ tz_offset' \in IF fn = "scrape_claude_share"
                      THEN _apply_stealth_to_page_offsets(fp_timezone)
                      ELSE {inject_stealth_scripts_offset(fp_timezone)}
    /\ UNCHANGED <<fp_timezone, timezoneFrame>>

TimezoneNext == DrawTimezone \/ InjectTimezone

TimezoneSpec == TimezoneInit /\ [][TimezoneNext]_vars

-----------------------------------------------------------------------------
(* The task queue (async_queue_manager.py 28-236).  task_queue is a        *)
(* LiteQueue: put appends a message, pop hands out the oldest message that *)
(* is ready.  The priority of a task is a field of the JSON text the       *)
(* message carries.                                                        *)

\* the number of tasks added
MaxTasks == 3

\* priority: 1 = high, 5 = low
Priorities == {1, 3, 5}

ScraperTypes == {"auto", "claude", "chatgpt"}

\* the scraper_type add_to_queue stores, "none" when it raises
StoredType(l, scraper_type) ==
    IF scraper_type # "auto" THEN scraper_type
    ELSE IF ContainsClaudeShare(l) THEN "claude"
    ELSE IF ContainsChatGPTDomain(l) THEN "chatgpt"
    ELSE "none"

\* the number of add_to_queue calls that stored a task
Added == Len(task_queue) + Len(processed_tasks)

QueueInit ==
    /\ fn = "process_queue_task"
    /\ pc = "queue"
    /\ task_queue = <<>>
    /\ processed_tasks = <<>>
    /\ active_sessions = {}
    /\ page_content = NoContent
    /\ doc = NoDoc
    /\ DefaultOptions
    /\ ClassIdle
    /\ BatchIdle
    /\ StealthIdle
    /\ WebIdle
    /\ Idle

queueFrame ==
    <<inputVars, classVars, batchVars, stealthVars, webVars, pc, attempt,
      attempts, error, waits, browserVars, fpVars, pageVars, outVars>>

\* task_queue.pop: the position of the message handed out, the oldest
pop(q) == 1

\* add_to_queue(url, scraper_type, ..., priority)
add_to_queue ==
    /\ pc = "queue"
    /\ Added < MaxTasks
    /\ \E l \in BatchLinks, t \in ScraperTypes, p \in Priorities :
          IF StoredType(l, t) = "none"
          THEN /\ result' = "raised"
               /\ UNCHANGED task_queue
          ELSE /\ result' = "task_id"
               /\ task_queue' = Append(task_queue,
                      [data |-> "task", task_id |-> Added + 1, url |-> l,
                       scraper_type |-> StoredType(l, t), priority |-> p])
    /\ UNCHANGED <<processed_tasks, active_sessions, queueFrame>>

\* process_queue_task(): None when the queue is empty; otherwise the message
\* popped is parsed, its task is entered in active_sessions, scraped,
\* recorded in processed_tasks and taken out of active_sessions, and a result
\* record is returned.  Every exception of the try block, json.loads and
\* task["task_id"] included, goes to the handler, which starts by reading
\* task_id and task: when the exception came before their assignment the
\* handler itself raises (UnboundLocalError) and the call ends by raising.
process_queue_task ==
    /\ pc = "queue"
    /\ IF task_queue = <<>>
       THEN /\ result' = "none"
            /\ UNCHANGED <<task_queue, processed_tasks, active_sessions>>
       ELSE \E ok \in BOOLEAN :
            LET i == pop(task_queue)
                task == task_queue[i]
                valid == /\ task.scraper_type \in {"claude", "chatgpt"}
                         /\ ValidLink(IF task.scraper_type = "claude"
                                      THEN "scrape_claude_share"
                                      ELSE "scrape_share", task.url)
            IN /\ task_queue' = [k \in 1..(Len(task_queue) - 1) |->
                                    IF k < i THEN task_queue[k]
                                    ELSE task_queue[k + 1]]
               /\ IF task.data = "task"
                  THEN /\ processed_tasks' = Append(processed_tasks,
                              [task_id |-> task.task_id,
                               priority |-> task.priority,
                               success |-> ok /\ valid])
                       /\ active_sessions' =
                              (active_sessions \cup {task.task_id})
                                  \ {task.task_id}
                       /\ result' = "task"
                  ELSE /\ result' = "raised"
                       /\ UNCHANGED <<processed_tasks, active_sessions>>
    /\ UNCHANGED queueFrame

QueueNext == add_to_queue \/ process_queue_task

QueueSpec == QueueInit /\ [][QueueNext]_vars

\* process_queue_task on the messages a queue file can hold: task_message.data
\* is the JSON text of a task as add_to_queue writes it ("task"), a text
\* that is not JSON ("text"), or the JSON text of an object without
\* "task_id" ("no_task_id")
Payloads == {"task", "text", "no_task_id"}

Messages ==
    [data : {"task"}, task_id : {1}, url : BatchLinks,
     scraper_type : {"claude", "chatgpt", "other"}, priority : {3}]
    \cup [data : Payloads \ {"task"}, task_id : {0}, url : BatchLinks,
          scraper_type : {"other"}, priority : {3}]

PayloadInit ==
    /\ fn = "process_queue_task"
    /\ pc = "queue"
    /\ task_queue \in UNION { [1..k -> Messages] : k \in 0..MaxTasks }
    /\ processed_tasks = <<>>
    /\ active_sessions = {}
    /\ page_content = NoContent
    /\ doc = NoDoc
    /\ DefaultOptions
    /\ ClassIdle
    /\ BatchIdle
    /\ StealthIdle
    /\ WebIdle
    /\ Idle

PayloadSpec == PayloadInit /\ [][process_queue_task]_vars

-----------------------------------------------------------------------------
(* Properties of a fetch *)

\* the hosts whose share links an entry point accepts
HostsOf(f) ==
    IF f = "scrape_share" THEN {"chat.openai.com", "chatgpt.com"}
    ELSE IF f \in ClaudeFetchers THEN {"claude.ai"}
    ELSE {"chat.openai.com", "chatgpt.com", "claude.ai"}

\* the link is not an https share link of a platform the entry point serves
Unsupported(f, l) == ~(l.https /\ l.share /\ l.host \in HostsOf(f))

\* the error classes a transient failure surfaces as
TransientErrors ==
    {"RequestTimedOut", "NetworkError", "TimeoutLoading", "ContentNotLoaded"}

\* C1: a Claude fetch in which no attempt succeeds ends by raising a terminal
\* error; it never returns normally (None, an empty value) without having
\* extracted at least one message.
C1_NeverReturnsWithoutMessage ==
    (pc = "done" /\ fn \in ClaudeFetchers /\ attempts >= 1) =>
        \/ result = "raised"
        \/ result = "markdown" /\ messages # <<>>

\* C2: every attempt of a Claude fetch uses a fingerprint generated for that
\* attempt: as many generations as attempts, and no fingerprint is given to
\* the browser context or the stealth injector of two attempts.
C2_FreshFingerprintPerAttempt ==
    fn \in ClaudeFetchers =>
        /\ fpCount >= Len(ctxFp)
        /\ \A i, j \in DOMAIN ctxFp : i # j => ctxFp[i] # ctxFp[j]
        /\ \A i, j \in DOMAIN injFp : i # j => injFp[i] # injFp[j]
        /\ pc = "done" /\ attempts >= 1 => fpCount = attempts

\* C3: on every exit path of a fetch, every browser the call launched has
\* been closed when the call returns or raises; no browser of an earlier
\* attempt is open when the next attempt starts.
C3_BrowsersClosed ==
    pc \in {"detect", "start", "fingerprint", "launch", "parse", "gpt_parse",
            "done"} => open = {}

\* a fetch that launched a browser for each of its attempts and ended with
\* an error
C3_Witness ==
    pc = "done" /\ result = "raised" /\ launched = max_retries

C5_RetriedOnEveryPath ==
    (pc = "done" /\ result = "raised" /\ error.class \in TransientErrors) =>
        attempts = max_retries

\* C5: on the Claude path a transient failure reaches the caller only after
\* max_retries attempts; on the ChatGPT path it reaches the caller after the
\* single attempt the fetch makes.
C5_RetriedOnClaudePath ==
    /\ fn = "scrape_share" => attempts <= 1
    /\ (pc = "done" /\ result = "raised"
          /\ error.class \in TransientErrors \cup {"AllAttemptsFailed"}) =>
            attempts = IF fn \in ClaudeFetchers THEN max_retries ELSE 1

\* a network error surfaced by scrape_claude_share, two sleeps behind it
C5_Witness ==
    /\ pc = "done" /\ fn = "scrape_claude_share"
    /\ error.class = "NetworkError" /\ Len(waits) = max_retries - 1

\* C6 as stated: in a Claude fetch a navigation response with any status of
\* 400 or above ends the attempt at once: no challenge check, content wait
\* or extraction on that attempt's page.
C6_ErrorStatusEndsAttempt ==
    (fn \in ClaudeFetchers /\ status >= 400) =>
        /\ visited = {}
        /\ pc \in {"fingerprint", "launch", "done"}

\* C6: in a Claude fetch a navigation response with status 403 ends the
\* attempt at once: no challenge check, content wait or extraction on that
\* attempt's page.
C6_ForbiddenEndsAttempt ==
    (fn \in ClaudeFetchers /\ status = 403) =>
        /\ visited = {}
        /\ pc \in {"fingerprint", "launch", "done"}

\* scrape_claude_share about to launch its second attempt after a 403
C6_Witness ==
    /\ fn = "scrape_claude_share" /\ status = 403
    /\ pc = "launch" /\ attempt = 1 /\ open = {}

C8_NoEmptyMarkdown ==
    /\ result = "markdown" =>
          blocks >= 1 /\ blocks = Len(messages)
    /\ (pc = "done" /\ "extract" \in visited /\ messages = <<>>) =>
          /\ result = "raised"
          /\ error.last \in {"NoMessages", "NoReadable"}

\* a ChatGPT page whose only message cannot be converted
C8_Witness ==
    /\ pc = "done" /\ fn = "scrape_share"
    /\ error.class = "NoReadable"
    /\ \E i \in DOMAIN doc.nodes : MarkdownifyRaises(doc.nodes[i])

-----------------------------------------------------------------------------
(* Properties of the challenge detectors and the extractors *)

\* the content holds a security indicator of the detector of f, matched the
\* way that detector matches
HasIndicator(f, c) ==
    IF f = "scrape_claude_share" THEN has_security_indicators(c)
    ELSE \E t \in c.tokens :
            Lower(t) \in {Lower(i) : i \in advanced_security_indicators}

\* C9: a page (long enough, and with no challenge element in its DOM) is
\* reported as challenged exactly when its content holds a security
\* indicator and no cookie-consent indicator; so content with "Ray ID:" and
\* "We use cookies" is not challenged.
C9_ChallengedIffSecurityAndNoBenign ==
    (pc = "detected" /\ ~page_content.short /\ ~page_content.chEl) =>
        (challenged <=>
            HasIndicator(fn, page_content) /\ ~has_normal_popups(page_content))

\* C10: the messages tier 2 returns are in document order, whatever the
\* layout of the document.
C10_Tier2DocumentOrder ==
    (pc = "extracted" /\ ClaudeTier(fn, doc) = 2) =>
        \A i, j \in DOMAIN messages :
            i < j => messages[i].pos < messages[j].pos

-----------------------------------------------------------------------------
(* Properties of the parsers and of the Markdown *)

\* the positions of the sequence of records s
Positions(s) == [i \in DOMAIN s |-> s[i].pos]

\* the role-annotated nodes of a ChatGPT page that have text
TextNodes(d) == SelectSeq(role_messages(d), LAMBDA e : TextLen(e.text) > 0)

\* the messages the parser of f finds in d, and those among them whose
\* formatting does not raise
Found(f, d) ==
    IF f = "scrape_share" THEN TextNodes(d)
    ELSE [i \in DOMAIN ClaudeMessages(f, d) |->
            [text |-> ClaudeMessages(f, d)[i].content,
             pos |-> ClaudeMessages(f, d)[i].pos]]

Formattable(f, d) ==
    SelectSeq(Found(f, d), LAMBDA e : e.text \notin Unparsable)

\* C11: with include_speakers false no block has a speaker label, with it
\* true every block starts with the label of its speaker; with
\* include_direction false no block has a dir wrapper, with it true every
\* block's text sits in exactly one.
C11_OptionFlags ==
    (pc = "rendered" /\ result = "markdown") =>
        /\ Len(markdown.blocks) = Len(messages)
        /\ \A i \in DOMAIN markdown.blocks :
              /\ markdown.blocks[i].label =
                    IF include_speakers
                    THEN SpeakerLabel(fn, messages[i].role) ELSE ""
              /\ Len(markdown.blocks[i].wrappers) =
                    IF include_direction THEN 1 ELSE 0

\* two blocks rendered with both options off
C11_Witness ==
    /\ pc = "rendered" /\ result = "markdown"
    /\ ~include_direction /\ ~include_speakers
    /\ Len(markdown.blocks) = 2

\* C12: for a ChatGPT page the Markdown has exactly one block per
\* role-annotated node with text (a node whose conversion raises is
\* skipped), in document order; with include_direction the wrapper of a
\* block carries the direction the classifier gives for the node's text
\* under direction_method; the header lists exactly the active options.
C12_ChatGPTBlocks ==
    (pc = "rendered" /\ fn = "scrape_share") =>
        /\ Formattable(fn, doc) # <<>> => result = "markdown"
        /\ result = "markdown" =>
              /\ Positions(markdown.blocks) = Positions(Formattable(fn, doc))
              /\ \A i, j \in DOMAIN markdown.blocks :
                    i < j => markdown.blocks[i].pos < markdown.blocks[j].pos
              /\ include_direction =>
                    \A i \in DOMAIN markdown.blocks :
                       markdown.blocks[i].wrappers =
                          <<_smart_direction_detection(
                               TextChars(doc.nodes[markdown.blocks[i].pos].text),
                               direction_method)>>
              /\ {markdown.header[i].option : i \in DOMAIN markdown.header} =
                    {o \in {"direction", "speakers"} :
                        \/ o = "direction" /\ include_direction
                        \/ o = "speakers" /\ include_speakers}
              /\ \A i \in DOMAIN markdown.header :
                    markdown.header[i].option = "direction" =>
                        markdown.header[i].method = direction_method

\* a user message in Latin script and an assistant message mostly in
\* Arabic script, both options on: two blocks, the second one rtl
C12_Witness ==
    /\ pc = "rendered" /\ fn = "scrape_share" /\ result = "markdown"
    /\ include_direction /\ include_speakers
    /\ doc.nodes = <<[kind |-> "user", text |-> 1],
                     [kind |-> "assistant", text |-> 2]>>
    /\ Len(markdown.blocks) = 2
    /\ markdown.blocks[1].wrappers = <<"ltr">>
    /\ markdown.blocks[2].wrappers = <<"rtl">>
    /\ Len(markdown.header) = 2

\* C13: on the ChatGPT path and on the Claude path, a message whose
\* parsing or formatting raises is skipped and the others are returned; the
\* fetch fails only when no message could be produced.
C13_BadNodeSkipped ==
    pc = "rendered" =>
        IF Formattable(fn, doc) = <<>>
        THEN result = "raised"
        ELSE /\ result = "markdown"
             /\ Positions(markdown.blocks) = Positions(Formattable(fn, doc))


-----------------------------------------------------------------------------
(* Properties of the direction classifier *)

Classified == pc = "classified"

ArabicBlock == {"ar", "aw"}

\* C14: under every method, a text that is empty, made only of whitespace,
\* or empty once its HTML-like tags are stripped is classified ltr, and the
\* call raises no error.
C14_EmptyTextIsLtr ==
    (Classified /\ (text = <<>> \/ Strip(text) = <<>> \/ clean_text(text) = <<>>))
        => (direction = "ltr" /\ error = NoError)

\* a text made of one tag around an Arabic letter, classified by its first
\* strong character
C14_Witness ==
    /\ Classified
    /\ Strip(text) # <<>>
    /\ clean_text(text) = <<>>
    /\ \E i \in DOMAIN text : text[i] = "ar"
    /\ direction_method = "first-strong"
    /\ direction = "ltr"

\* C15 as stated: every non-empty text of Arabic-block characters (letters,
\* digits, marks and punctuation alike) is rtl under counting and under
\* first-strong.
C15_ArabicBlockIsRtl ==
    (/\ Classified
     /\ text # <<>>
     /\ \A i \in DOMAIN text : text[i] \in ArabicBlock
     /\ direction_method \in {"counting", "first-strong"})
        => direction = "rtl"

\* C15, amended: every non-empty text of Arabic-block characters is rtl under
\* counting; under first-strong it is rtl exactly when it holds a letter (a
\* character of a strong RTL class), and ltr when it is made of digits, marks
\* and punctuation only.
C15_ArabicLettersAreRtl ==
    (/\ Classified
     /\ text # <<>>
     /\ \A i \in DOMAIN text : text[i] \in ArabicBlock)
        => /\ direction_method = "counting" => direction = "rtl"
           /\ direction_method = "first-strong" =>
                 (direction = "rtl" <=> \E i \in DOMAIN text : text[i] = "ar")

\* Arabic digits followed by Arabic letters, under first-strong
C15_Witness ==
    /\ Classified
    /\ text # <<>>
    /\ \A i \in DOMAIN text : text[i] \in ArabicBlock
    /\ text[1] = "aw"
    /\ \E i \in DOMAIN text : text[i] = "ar"
    /\ direction_method = "first-strong"
    /\ direction = "rtl"

\* C16 as stated: every text of length at least 10 that holds an
\* Arabic-block character and a Latin letter, with or without tags and runs
\* of whitespace, gets from auto what it gets from weighted.
C16_AutoIsWeightedOnLongMixed ==
    (/\ Classified
     /\ direction_method = "auto"
     /\ Len(text) >= 10
     /\ \E i \in DOMAIN text : text[i] \in ArabicBlock
     /\ \E i \in DOMAIN text : text[i] = "la")
        => direction = _smart_direction_detection(text, "weighted")

\* C16, amended: the length that counts is that of the text once its tags
\* are stripped and its whitespace collapsed; a text that is then at least
\* 10 long and holds an Arabic-block character and a Latin letter gets from
\* auto the result of the weighted method.
C16_AutoIsWeightedOnLongCleanMixed ==
    (/\ Classified
     /\ direction_method = "auto"
     /\ Len(clean_text(text)) >= 10
     /\ \E i \in DOMAIN clean_text(text) : clean_text(text)[i] \in ArabicBlock
     /\ \E i \in DOMAIN clean_text(text) : clean_text(text)[i] = "la")
        => direction = _weighted_direction(clean_text(text))

\* a mixed text that cleaning shortens, still at least 10 long, on which
\* the weighted method and the counting method disagree
C16_Witness ==
    /\ Classified
    /\ direction_method = "auto"
    /\ Len(clean_text(text)) >= 10
    /\ Len(clean_text(text)) < Len(text)
    /\ \E i \in DOMAIN clean_text(text) : clean_text(text)[i] \in ArabicBlock
    /\ \E i \in DOMAIN clean_text(text) : clean_text(text)[i] = "la"
    /\ direction # _character_counting_direction(clean_text(text))

-----------------------------------------------------------------------------
(* Properties of the entry points *)

\* the identifier length the detection of the web UI asks for
MinIdLen == 8

\* C18: a browser is launched only for an https share link of a supported
\* platform whose identifier has at least the minimum length; a link with an
\* empty or too-short identifier is rejected before any browser is launched,
\* whether the fetcher is called directly or through auto-detection.
C18_ShortIdRejected ==
    launched > 0 =>
        /\ link.https /\ link.share
        /\ link.host \in {"chatgpt.com", "chat.openai.com", "claude.ai"}
        /\ link.idLen >= MinIdLen

\* C19: quick_scrape (scrape_with_auto_detection run to completion) given a
\* URL of no supported platform raises ValueError without starting a scrape.
C19_UnsupportedRaisesValueError ==
    (/\ pc = "done"
     /\ fn = "scrape_with_auto_detection"
     /\ DetectedFetcher(link) = "none")
        => /\ result = "raised"
           /\ ExceptionType(error.class) = "ValueError"
           /\ launched = 0 /\ attempts = 0

-----------------------------------------------------------------------------
(* Properties of batch mode *)

\* C17: in scrape_multiple_urls at most max_concurrent fetches are in
\* progress at any moment, whatever the list of URLs and the interleaving of
\* the tasks, and no two fetches in progress use the same browser, the same
\* page or the same fingerprint.
C17_BatchBounded ==
    fn = "scrape_multiple_urls" =>
        /\ Cardinality(InProgress) <= max_concurrent
        /\ \A i, j \in InProgress :
              i # j =>
                /\ tasks[i].browser # 0 => tasks[i].browser # tasks[j].browser
                /\ tasks[i].page # 0 => tasks[i].page # tasks[j].page
                /\ tasks[i].fingerprint # 0 =>
                      tasks[i].fingerprint # tasks[j].fingerprint

\* two Claude fetches hold the two permits, each with its browser, one of
\* them on a later attempt, while a third URL waits for a permit
C17_Witness ==
    /\ fn = "scrape_multiple_urls"
    /\ max_concurrent = 2
    /\ semaphore = 0
    /\ \E i, j, k \in DOMAIN tasks :
          /\ i # j
          /\ tasks[i].state = "browsing" /\ tasks[i].fingerprint # 0
          /\ tasks[j].state = "browsing" /\ tasks[j].fingerprint # 0
          /\ tasks[j].attempt > 1
          /\ tasks[k].state = "waiting" /\ BatchFetcher(urls[k]) # "none"

-----------------------------------------------------------------------------
(* The session management of the web app (web_app.py 40-51, 149-251,       *)
(* 309, 411-625).  global_queue, active_sessions and processing_single are *)
(* attributes of st.session_state, which Streamlit keeps once per browser  *)
(* session: session_state[s] is the st.session_state of session s, created *)
(* by lines 41-51 at the first run of its script.  The script of a session *)
(* runs from top to bottom at every interaction; it reads and writes the   *)
(* st.session_state of its own session only.                               *)

\* the number of browser sessions connected
MaxSessions == 4

MAX_CONCURRENT_USERS == 3

MAX_QUEUE_SIZE == 10

\* lines 41-51: the state a session starts with
NewSessionState ==
    [global_queue |-> <<>>, active_sessions |-> {}, processing_single |-> FALSE,
     downloading |-> FALSE]

\* the session ids that are keys of active_sessions
ActiveIds(ss) == { e.session_id : e \in ss.active_sessions }

\* the queue without the ids of the set gone
RemoveIds(q, gone) == SelectSeq(q, LAMBDA id : id \notin gone)

\* clean_expired_sessions(): entries older than 600 s leave active_sessions
\* and the queue
clean_expired_sessions(ss) ==
    LET expired == { e.session_id : e \in {x \in ss.active_sessions : x.old} }
    IN [ss EXCEPT
           !.active_sessions = {e \in ss.active_sessions : ~e.old},
           !.global_queue = RemoveIds(ss.global_queue, expired)]

\* can_process_now() after its call of clean_expired_sessions
can_process_now(ss, session_id) ==
    \/ session_id \in ActiveIds(ss)
    \/ /\ Cardinality(ActiveIds(ss)) < MAX_CONCURRENT_USERS
       /\ ss.global_queue = <<>>
    \/ /\ ss.global_queue # <<>>
       /\ ss.global_queue[1] = session_id
       /\ Cardinality(ActiveIds(ss)) < MAX_CONCURRENT_USERS

\* add_to_queue() of web_app.py
join_queue(ss, session_id) ==
    IF \/ \E k \in DOMAIN ss.global_queue : ss.global_queue[k] = session_id
       \/ session_id \in ActiveIds(ss)
       \/ Len(ss.global_queue) >= MAX_QUEUE_SIZE
    THEN ss
    ELSE [ss EXCEPT !.global_queue = Append(@, session_id)]

\* start_processing()
start_processing(ss, session_id) ==
    [ss EXCEPT
        !.global_queue = RemoveIds(@, {session_id}),
        !.active_sessions = {e \in @ : e.session_id # session_id}
            \cup {[session_id |-> session_id, old |-> FALSE]}]

\* finish_processing()
finish_processing(ss, session_id) ==
    [ss EXCEPT !.active_sessions = {e \in @ : e.session_id # session_id}]

WebInit ==
    /\ fn = "web_app"
    /\ pc = "serving"
    /\ session_state = [s \in 1..MaxSessions |-> NewSessionState]
    /\ page_content = NoContent
    /\ doc = NoDoc
    /\ DefaultOptions
    /\ ClassIdle
    /\ BatchIdle
    /\ QueueIdle
    /\ StealthIdle
    /\ Idle

webFrame ==
    <<inputVars, classVars, batchVars, queueVars, stealthVars, pc, attempt,
      attempts, result, error, waits, browserVars, fpVars, pageVars, outVars>>

\* a run of the script of session s without a press of Download Chat:
\* get_queue_status and can_process_now clean the expired entries; when
\* can_process_now is false the session is shown the queue branch, where
\* the user may press Join Queue
ScriptRun(s) ==
    /\ ~session_state[s].downloading
    /\ ~session_state[s].processing_single
    /\ LET ss == clean_expired_sessions(session_state[s])
       IN IF can_process_now(ss, s)
          THEN session_state' = [session_state EXCEPT ![s] = ss]
          ELSE \E joins \in BOOLEAN :
                  session_state' = [session_state EXCEPT ![s] =
                      IF joins THEN join_queue(ss, s) ELSE ss]
    /\ UNCHANGED webFrame

\* the run in which the user of session s pressed Download Chat (411-419):
\* can_process_now() returned true in this run, processing_single is set
\* and start_processing() is called
PressDownload(s) ==
    /\ ~session_state[s].downloading
    /\ ~session_state[s].processing_single
    /\ LET ss == clean_expired_sessions(session_state[s])
       IN /\ can_process_now(ss, s)
          /\ session_state' = [session_state EXCEPT ![s] =
                 [start_processing(ss, s) EXCEPT !.processing_single = TRUE]]
    /\ UNCHANGED webFrame

\* the rerun that follows (420-): the download of the conversation begins
BeginDownload(s) ==
    /\ ~session_state[s].downloading
    /\ session_state[s].processing_single
    /\ LET ss == clean_expired_sessions(session_state[s])
       IN /\ can_process_now(ss, s)
          /\ session_state' = [session_state EXCEPT ![s] =
                 [ss EXCEPT !.downloading = TRUE]]
    /\ UNCHANGED webFrame

\* the download ends: processing_single is reset and the finally clause
\* calls finish_processing() (521, 604-606)
EndDownload(s) ==
    /\ session_state[s].downloading
    /\ session_state' = [session_state EXCEPT ![s] =
           [finish_processing(session_state[s], s) EXCEPT
               !.processing_single = FALSE, !.downloading = FALSE]]
    /\ UNCHANGED webFrame

\* ten minutes pass since session s started processing
Age(s) ==
    /\ \E e \in session_state[s].active_sessions : ~e.old
    /\ session_state' = [session_state EXCEPT ![s].active_sessions =
           { [e EXCEPT !.old = TRUE] : e \in @ }]
    /\ UNCHANGED webFrame

WebNext ==
    \E s \in DOMAIN session_state :
        \/ ScriptRun(s)
        \/ PressDownload(s)
        \/ BeginDownload(s)
        \/ EndDownload(s)
        \/ Age(s)

WebSpec == WebInit /\ [][WebNext]_vars

-----------------------------------------------------------------------------
(* Properties of the task queue *)

\* C20: process_queue_task never takes a task from the queue while a task
\* of strictly higher priority (a smaller number) is waiting in it: the task
\* it records has a priority number no greater than that of any task it
\* leaves in the queue.
C20_PriorityHonoured ==
    [][ (fn = "process_queue_task" /\ Len(processed_tasks') > Len(processed_tasks))
          => \A k \in DOMAIN task_queue' :
                processed_tasks'[Len(processed_tasks')].priority
                    <= task_queue'[k].priority ]_vars

-----------------------------------------------------------------------------
(* Properties of the attempts of a Claude fetch *)

\* C22: applying the stealth overrides is best-effort: whatever the
\* injection call does, raising included, the attempt goes on to the
\* navigation and the fetch does not end there.
C22_StealthIsBestEffort ==
    [][(fn \in ClaudeFetchers /\ pc = "stealth")
          => (pc' = "navigate" /\ result' = "running")]_vars

\* C24: in a Claude fetch every failed attempt that is followed by another
\* is followed by a backoff wait first, whatever made it fail, and the wait
\* after attempt n is 2^n seconds plus a jitter of at least one second.
C24_BackoffAfterEveryFailure ==
    fn \in ClaudeFetchers =>
        \A i \in DOMAIN waits :
            waits[i].after < max_retries - 1 =>
                waits[i].lo >= Pow2(waits[i].after) + 1

\* C26: after a bypass attempt the attempt goes on to the content wait
\* exactly when the challenge detection that flagged the page reports no
\* challenge on the page content read after the bypass.
C26_RecheckIsTheDetection ==
    [][(fn \in ClaudeFetchers /\ pc = "bypass")
          => (pc' = "wait" <=> ~Detect(fn, page_content'))]_vars

\* C30 as stated: whenever scrape_claude_share leaves its retry loop with a
\* page to parse, the challenge check does not classify that page content as
\* challenged, whichever content-wait strategy let the attempt proceed.
C30_NeverParsesChallengedPage ==
    (fn = "scrape_claude_share" /\ pc = "parse") =>
        ~challenge_detected(page_content)

\* C30, amended: whenever scrape_claude_share leaves its retry loop with a
\* page to parse and neither the selector wait nor the text-length wait
\* succeeded, the challenge check does not classify the page content as
\* challenged; when one of them succeeded the final check is skipped.
C30_NeverParsesChallengedUnloadedPage ==
    (fn = "scrape_claude_share" /\ pc = "parse" /\ ~content_loaded) =>
        ~challenge_detected(page_content)

\* the grace wait ended on a page that holds a security indicator next to a
\* cookie notice, and the attempt went on to the parser
C30_Witness ==
    /\ fn = "scrape_claude_share" /\ pc = "parse"
    /\ ~content_loaded
    /\ has_security_indicators(page_content)
    /\ has_normal_popups(page_content)

-----------------------------------------------------------------------------
(* Properties of the first extraction tier *)

\* C25: for a Claude document whose messages all sit in render-count
\* containers, tier 1 returns one message per container with non-empty
\* text, in container order, with role user for the user-marker containers
\* and role assistant for the assistant-class containers; tiers 2 and 3 are
\* not run.
C25_Tier1TakesEveryContainer ==
    (/\ pc = "extracted"
     /\ doc.containers
     /\ \E i \in DOMAIN doc.nodes :
           doc.nodes[i].kind # "other" /\ TextLen(doc.nodes[i].text) > 0)
        => /\ ClaudeTier(fn, doc) = 1
           /\ messages =
                 Concat([i \in DOMAIN doc.nodes |->
                     IF doc.nodes[i].kind # "other" /\ TextLen(doc.nodes[i].text) > 0
                     THEN <<[role |-> doc.nodes[i].kind,
                             content |-> doc.nodes[i].text, pos |-> i]>>
                     ELSE <<>>])

-----------------------------------------------------------------------------
(* Properties of repeated classification                                   *)

-----------------------------------------------------------------------------
(* Properties of the timezone the page reports                             *)

\* C27: for every timezone of the generator's pool, the timezone offset the
\* page reports once the stealth script is injected is an offset of the
\* fingerprint's own timezone, the one given to the browser context.
C27_OffsetOfOwnTimezone ==
    pc = "injected" => tz_offset \in ZoneOffsets(fp_timezone)

-----------------------------------------------------------------------------
(* Properties of the list a batch returns                                  *)

\* C28: scrape_multiple_urls returns exactly one result per input URL, in
\* input order: result i carries the index and the URL of position i,
\* whatever the order in which the fetches finished; the result of a fetch
\* that failed has success = false and an error text, and every other
\* result is that of its own fetch.
C28_OneResultPerUrlInOrder ==
    (fn = "scrape_multiple_urls" /\ pc = "done") =>
        /\ Len(results) = Len(urls)
        /\ \A i \in DOMAIN urls :
              /\ results[i].index = i - 1
              /\ results[i].url = urls[i]
              /\ results[i].success = tasks[i].success
              /\ results[i].success => "result" \in DOMAIN results[i]
              /\ ~results[i].success => "error" \in DOMAIN results[i]

\* a batch of three has returned; the fetches finished in the reverse of
\* the input order, one failed and one succeeded
C28_Witness ==
    /\ fn = "scrape_multiple_urls" /\ pc = "done"
    /\ Len(urls) = 3
    /\ tasks[1].finished > tasks[2].finished
    /\ tasks[2].finished > tasks[3].finished
    /\ ~tasks[2].success
    /\ tasks[3].success

-----------------------------------------------------------------------------
(* Properties of the handling of one queue message                         *)

\* C29: every call of process_queue_task that takes a message from the
\* queue returns a result record instead of raising, and on return the
\* task is recorded in processed_tasks and is not in active_sessions, for
\* every payload (not JSON and without task_id included) and every outcome
\* of the scrape.
C29_TakenTaskIsRecorded ==
    [][ (fn = "process_queue_task" /\ Len(task_queue') < Len(task_queue))
          => /\ result' = "task"
             /\ Len(processed_tasks') = Len(processed_tasks) + 1
             /\ processed_tasks'[Len(processed_tasks')].task_id
                    \notin active_sessions' ]_vars

-----------------------------------------------------------------------------
(* Properties of the web app's session limit                               *)

\* the sessions that are recorded as active: they pressed Download Chat and
\* have an entry in active_sessions
ActiveSessions ==
    { s \in DOMAIN session_state : s \in ActiveIds(session_state[s]) }

\* C21: in the web app the number of sessions in active_sessions never
\* exceeds MAX_CONCURRENT_USERS, under any interleaving of the sessions'
\* actions.
C21_AtMostThreeActive ==
    fn = "web_app" => Cardinality(ActiveSessions) <= MAX_CONCURRENT_USERS

====
